---------------------------- MODULE Spec2Model ----------------------------
(***************************************************************************)
(* A model of the simulation core of the three.js seagull game:            *)
(*   - Seagull (src/src/objects/Seagull.ts): placeholder / loaded visual,  *)
(*     hit(), dispose(), update();                                         *)
(*   - Ball (src/src/objects/Seagull.ts, second class of the file);        *)
(*   - PhysicsWorld (src/src/physics/PhysicsWorld.ts): fixed-step          *)
(*     accumulator and the body registry;                                  *)
(*   - ExampleScene (src/src/scenes/ExampleScene.ts, the physics-enabled   *)
(*     class, lines 363-744): seagull rounds, win countdown, reset, ball   *)
(*     tracking, update and dispose;                                       *)
(*   - the raycast hit of FirstPersonControls (src/src/                    *)
(*     FirstPersonControls.ts), as far as it reaches Seagull.hit().        *)
(*                                                                         *)
(* Fourteen specifications share the definitions:                          *)
(*   Spec        the scene with its seagulls (timers, model loads, raycast *)
(*               hits, win, reset, frames, teardown);                      *)
(*   SpecSeagull the Seagull class driven directly: hit(), update() and    *)
(*               dispose() called by any caller at any time, and the       *)
(*               scene's teardown;                                         *)
(*   SpecFlight  the flight of a seagull: loads that succeed or fail,      *)
(*               hits, and update() called with any delta;                 *)
(*   SpecPhysics the PhysicsWorld class driven directly;                   *)
(*   SpecBall    the Ball class driven directly;                           *)
(*   SpecBalls   the scene with physics balls (throw, frames, teardown);   *)
(*   SpecControls the raycast balls of FirstPersonControls (throw, timer,  *)
(*               seagull hit, teardown);                                   *)
(*   SpecCollide the scene's onBallCollide() called with any event;        *)
(*   SpecRaycast the ball loop of FirstPersonControls.update() (throw,     *)
(*               frames, ray casts against seagulls and surfaces);         *)
(*   SpecCollidable the collidable set of FirstPersonControls.update();    *)
(*   SpecPath    the flight paths setBounds() generates for any box;       *)
(*   SpecRounds  the rounds of the game: hit() on any seagull ever         *)
(*               created, and the reset after a win;                       *)
(*   SpecHits    the seagull branch of FirstPersonControls.update() with   *)
(*               several balls and seagulls;                               *)
(*   SpecSteps   PhysicsWorld.update() called with frame deltas within     *)
(*               the cap.                                                  *)
(*                                                                         *)
(* Quantisation.  Time and progress are real numbers in the code; the      *)
(* model counts them in ticks:                                             *)
(*   physics time    one tick = 1/120 s, so timeStep (1/60 s) = 2 ticks;   *)
(*   Date.now()      one tick = 1000 ms, so Ball.LIFETIME (5000 ms) = 5    *)
(*                   and BALL_LIFETIME of the controls (5000 ms) = 5;      *)
(*   path progress   one tick = 1/ProgressUnit of the closed curve;        *)
(*   controls clock  one tick = 100 ms (clock.elapsed, clock.delta), so    *)
(*                   COLLISION_UPDATE_INTERVAL (500 ms) = 5;               *)
(*   raycast balls   positions in mm, velocities in cm/s, so that          *)
(*                   position + velocity * delta is exact: BALL_SPEED      *)
(*                   (100 m/s) = 10000, gravity 9.8 m/s^2 = 98 per tick,   *)
(*                   the 0.2 m offset = 200, the 0.5 m/s threshold = 50,   *)
(*                   the 0.1 (m/s)^2 threshold = 1000; the products by     *)
(*                   0.6 and 0.95 and the square root are rounded toward   *)
(*                   zero where the code rounds in floating point.         *)
(***************************************************************************)
EXTENDS Integers, Sequences, FiniteSets, TLC

VARIABLES
    sg,                 \* every Seagull ever constructed, by id (a sequence of records)
    seagulls,           \* ExampleScene.seagulls: the ids the scene tracks, in order
    remainingSeagulls,  \* ExampleScene.remainingSeagulls
    winDisplay,         \* style.display of the element this.winScreen points to
    winScreens,         \* number of win-screen elements in the document
    winSignals,         \* number of showWinScreen() calls so far (history)
    staleHits,          \* number of hit() calls made on a seagull already hit (history)
    round,              \* number of initSeagulls() calls so far (history)
    sceneDisposed,      \* ExampleScene.dispose() has run (history)
    hist,               \* counts of the direct calls the properties speak of (history)
    ctl,                \* FirstPersonControls: its raycast balls and their shared resources
    accumulator,        \* PhysicsWorld.accumulator, in physics ticks
    steps,              \* world.step() calls made by the last PhysicsWorld.update
    stepped,            \* physics time simulated by the last PhysicsWorld.update
    bodies,             \* PhysicsWorld.bodies: the side registry (a sequence)
    worldBodies,        \* CANNON.World.bodies: the engine's own list
    now,                \* Date.now(), in clock ticks
    bl,                 \* every Ball ever constructed, by id (a sequence of records)
    balls,              \* ExampleScene.balls: the ids the scene tracks, in order
    ballMeshes          \* ids of the balls whose mesh is a child of the scene

vars == <<sg, seagulls, remainingSeagulls, winDisplay, winScreens, winSignals,
          staleHits, round, sceneDisposed, hist, ctl, accumulator, steps, stepped,
          bodies, worldBodies, now, bl, balls, ballMeshes>>

seagullVars == <<sg, seagulls, remainingSeagulls, winDisplay, winScreens,
                 winSignals, staleHits, round>>
physicsVars == <<accumulator, steps, stepped>>
registryVars == <<bodies, worldBodies>>
ballVars == <<bl, balls, ballMeshes>>

----------------------------------------------------------------------------
(* Program constants *)

NUM_SEAGULLS == 5
maxSteps == 3
timeStep == 2
LIFETIME == 5
BALL_LIFETIME == 5
ProgressUnit == 2
COLLISION_UPDATE_INTERVAL == 5
BALL_SPEED == 10000
BOUNCE_FACTOR == [num |-> 3, den |-> 5]
FloorDamping == [num |-> 19, den |-> 20]
Gravity == 98
ThrowOffset == 500
NormalOffset == 200
TinyBounce == 50
RestSpeedSq == 1000
MinPathPoints == 5
PathPointSpread == 3
PathLift == 5
PathRise == 15

(* Bounds of the model *)

MaxRounds == 2
MaxStaleHits == 1
MaxLoadErrors == 1
MaxDelta == 1
MaxProgress == 3
MaxLoneSeagulls == 1
MaxLoneDelta == 3
MaxSeagullDisposals == 1
MaxLateUpdates == 2
MaxPaths == 3
MaxCollisions == 3
MaxRayBalls == 1
MaxBallFrames == 1
MaxIdleFrames == 3
RandUnit == 2
StreamLen == 4
MaxLoneBalls == 1
MaxTargets == 2
MaxHitFrames == 1
MaxFed == 40
MaxDisposeCalls == 2
MaxBodies == 2
MaxMissedRemovals == 1
MaxWorldDisposals == 1
MaxRegistry == 3
MaxDt == 7
MaxAccumulator == 14
MaxBalls == 2
MaxThrows == 2
MaxNow == 7
MaxElapsed == 2

----------------------------------------------------------------------------
(* Helpers *)

Range(q) == {q[i] : i \in 1..Len(q)}

Visuals == {"fallback", "loaded"}

GroundBody == 0

----------------------------------------------------------------------------
(* Vector3 (three.js), on integer components *)

Vec(x, y, z) == [x |-> x, y |-> y, z |-> z]

Dot(a, b) == a.x * b.x + a.y * b.y + a.z * b.z

Plus(a, b) == Vec(a.x + b.x, a.y + b.y, a.z + b.z)

Times(a, k) == Vec(a.x * k, a.y * k, a.z * k)

\* a * num / den, rounded toward zero.
Ratio(a, num, den) ==
    IF a >= 0 THEN (a * num) \div den ELSE 0 - (((0 - a) * num) \div den)

RatioV(a, num, den) == Vec(Ratio(a.x, num, den), Ratio(a.y, num, den), Ratio(a.z, num, den))

\* Math.sqrt, rounded down (Newton's iteration from x).
RECURSIVE SqrtFrom(_, _)
SqrtFrom(n, x) ==
    LET y == (x + n \div x) \div 2
    IN IF y >= x THEN x ELSE SqrtFrom(n, y)

Sqrt(n) == IF n < 2 THEN n ELSE SqrtFrom(n, n)

\* Vector3.length()
Length(a) == Sqrt(Dot(a, a))

\* Vector3.reflect(n) for a unit normal n: a - 2 (a . n) n.
Reflect(a, n) == Plus(a, Times(n, 0 - 2 * Dot(a, n)))

\* Vector3.applyQuaternion(q) for a rotation of q quarter turns about the
\* y axis (Object3D.rotation.y = q * PI / 2).
Turn(a, q) ==
    CASE q % 4 = 0 -> a
      [] q % 4 = 1 -> Vec(a.z, a.y, 0 - a.x)
      [] q % 4 = 2 -> Vec(0 - a.x, a.y, 0 - a.z)
      [] q % 4 = 3 -> Vec(0 - a.z, a.y, a.x)

\* origin + direction * distance, direction being a normalised: the point a
\* Raycaster reports for an intersection at that distance.
PointAt(origin, a, distance) ==
    Plus(origin, RatioV(Times(a, distance), 1, Length(a)))

----------------------------------------------------------------------------
(* Seagull *)

\* The state a constructor call leaves: the placeholder is the model and
\* modelLoaded is already true, the GLTF load is in flight, progress is 0.
\*   onHitCalls  number of onHitCallback() invocations (history)
\*   parent      per visual, "scene" or "none"
\*   collidable  whether the loaded model has ever been a child of the
\*               scene, so that a collidable set built then holds its
\*               meshes (history)
\*   disposed    per visual, number of dispose() passes over its meshes
\*   progress    the path progress; update() writes the position and the
\*               rotation of the model from the path sample at progress
\*   timer       the scene's 500 ms attachment timer for this seagull
\*   path        the flight path, named by the number of createRandomPath()
\*               calls made for this seagull (each call draws a new curve)
\*   at          the path and the progress of the sample update() last wrote
\*               into the model's position (path 0: never written)
NewSeagull ==
    [isHit |-> FALSE, onHitCalls |-> 0,
     model |-> "fallback", modelLoaded |-> TRUE, load |-> "pending",
     parent |-> [fallback |-> "none", loaded |-> "none"],
     collidable |-> FALSE,
     disposed |-> [fallback |-> 0, loaded |-> 0],
     progress |-> 0, timer |-> "pending",
     path |-> 1, at |-> [path |-> 0, progress |-> 0]]

\* setBounds() that starts the new path from its beginning.
SeagullSetBoundsRestart(g) ==
    [g EXCEPT !.path = @ + 1, !.progress = 0]

\* Seagull.setBounds(min, max): a new random path within the new bounds.
SeagullSetBounds(g) ==
    [g EXCEPT !.path = @ + 1]

\* The boxes a seagull is given: the one initSeagulls() passes to
\* setBounds(), the one the constructor starts with, and a low one.
SceneBounds == [max |-> Vec(50, 35, 50), min |-> Vec(-50, 15, -50)]
DefaultBounds == [max |-> Vec(100, 50, 100), min |-> Vec(-100, 0, -100)]
LowBounds == [max |-> Vec(10, 10, 10), min |-> Vec(-10, 0, -10)]

\* The value the j-th Math.random() call of a createRandomPath() returns,
\* in units of 1/RandUnit; rnd is the stream drawn from, repeating.
Drawn(rnd, j) == rnd[((j - 1) % Len(rnd)) + 1]

\* Seagull.createRandomPath() within bounds: MinPathPoints + n control
\* points, n being Math.floor(Math.random() * 3), each with x and z drawn
\* between the corners of the box and y drawn from PathLift to
\* PathLift + PathRise above its floor, given to a closed CatmullRomCurve3.
createRandomPath(bounds, n, rnd) ==
    [closed |-> TRUE,
     points |-> [i \in 1..(MinPathPoints + n) |->
                   Vec(bounds.min.x
                         + Ratio(Drawn(rnd, 3 * i - 2) * (bounds.max.x - bounds.min.x),
                                 1, RandUnit),
                       bounds.min.y + PathLift
                         + Ratio(Drawn(rnd, 3 * i - 1) * PathRise, 1, RandUnit),
                       bounds.min.z
                         + Ratio(Drawn(rnd, 3 * i) * (bounds.max.z - bounds.min.z),
                                 1, RandUnit))]]

\* Seagull.dispose(): releases geometry and materials of every mesh of the
\* current model (the mixer is not modelled).
SeagullDispose(g) ==
    [g EXCEPT !.disposed[g.model] = @ + 1]

\* Seagull.hit() without the isHit guard.
SeagullHitUnguarded(g) ==
    SeagullDispose([g EXCEPT !.isHit = TRUE,
                             !.onHitCalls = @ + 1,
                             !.parent[g.model] = "none"])

\* Seagull.hit() that leaves the model where it is.
SeagullHitAttached(g) ==
    IF g.isHit
    THEN g
    ELSE SeagullDispose([g EXCEPT !.isHit = TRUE, !.onHitCalls = @ + 1])

\* Seagull.hit() on the seagull record g.
SeagullHit(g) ==
    IF g.isHit
    THEN g
    ELSE SeagullDispose([g EXCEPT !.isHit = TRUE,
                                  !.onHitCalls = @ + 1,
                                  !.parent[g.model] = "none"])

\* progress += speed * delta; if (progress > 1) progress -= 1.
Advance(p, d) ==
    IF p + d > ProgressUnit THEN p + d - ProgressUnit ELSE p + d

\* Seagull.update() with the seagull clock reporting speed * delta = d ticks:
\* the progress advances and the model's position becomes the sample of the
\* path at the new progress.
SeagullUpdate(g, d) ==
    IF ~g.modelLoaded
    THEN g
    ELSE [g EXCEPT !.progress = Advance(g.progress, d),
                   !.at = [path |-> g.path, progress |-> Advance(g.progress, d)]]

\* A success callback that adds the loaded model to the scene whatever the
\* placeholder's parent was.
SeagullLoadedAttach(g) ==
    [g EXCEPT !.parent = [fallback |-> IF g.model = "fallback" THEN "none"
                                        ELSE g.parent.fallback,
                          loaded |-> "scene"],
              !.collidable = TRUE,
              !.model = "loaded",
              !.modelLoaded = TRUE,
              !.load = "done"]

\* A success callback that leaves the placeholder attached.
SeagullLoadedKeepsPlaceholder(g) ==
    LET p == g.parent[g.model] IN
    [g EXCEPT !.parent = [fallback |-> g.parent.fallback, loaded |-> p],
              !.collidable = (p = "scene"),
              !.model = "loaded",
              !.modelLoaded = TRUE,
              !.load = "done"]

\* The success callback of loadModel().
SeagullLoaded(g) ==
    LET p == g.parent[g.model] IN
    [g EXCEPT !.parent = [fallback |-> IF g.model = "fallback" THEN "none"
                                        ELSE g.parent.fallback,
                          loaded |-> p],
              !.collidable = (p = "scene"),
              !.model = "loaded",
              !.modelLoaded = TRUE,
              !.load = "done"]

----------------------------------------------------------------------------
(* ExampleScene: the win countdown *)

showWinScreen ==
    /\ winDisplay' = "block"
    /\ winSignals' = winSignals + 1

\* handleSeagullHit() signalling one hit early.
handleSeagullHitEarly ==
    /\ remainingSeagulls' = remainingSeagulls - 1
    /\ IF remainingSeagulls - 1 <= 1
       THEN showWinScreen
       ELSE UNCHANGED <<winDisplay, winSignals>>

handleSeagullHit ==
    /\ remainingSeagulls' = remainingSeagulls - 1
    /\ IF remainingSeagulls - 1 <= 0
       THEN showWinScreen
       ELSE UNCHANGED <<winDisplay, winSignals>>

\* seagull.hit() on seagull s with the scene's callback (handleSeagullHit,
\* showWinScreen), on st = [sg, remainingSeagulls, winDisplay, winSignals,
\* staleHits]: the form a loop or a callback of another class applies.
SceneHit(st, s) ==
    LET g == SeagullHit(st.sg[s])
        fresh == g.onHitCalls > st.sg[s].onHitCalls
        won == fresh /\ st.remainingSeagulls - 1 <= 0
    IN [sg |-> [st.sg EXCEPT ![s] = g],
        remainingSeagulls |-> IF fresh THEN st.remainingSeagulls - 1
                              ELSE st.remainingSeagulls,
        winDisplay |-> IF won THEN "block" ELSE st.winDisplay,
        winSignals |-> IF won THEN st.winSignals + 1 ELSE st.winSignals,
        staleHits |-> IF st.sg[s].isHit THEN st.staleHits + 1 ELSE st.staleHits]

\* onBallCollide() that trusts seagullInstance without looking at the tag.
onBallCollideUntagged(st, ev) ==
    IF ~ev.hasBody
    THEN st
    ELSE IF ev.seagull # 0 /\ ~st.sg[ev.seagull].isHit
         THEN SceneHit(st, ev.seagull)
         ELSE st

\* ExampleScene.onBallCollide(event) on st (as for SceneHit).  The event is
\*   hasBody  whether event and event.body are there
\*   seagull  body.userData.seagullInstance, 0 for none
\*   tagged   body.userData.isSeagull
onBallCollide(st, ev) ==
    IF ~ev.hasBody
    THEN st
    ELSE IF ev.tagged /\ ev.seagull # 0 /\ ~st.sg[ev.seagull].isHit
         THEN SceneHit(st, ev.seagull)
         ELSE st

\* initSeagulls() that leaves the countdown as it is.
initSeagullsStale(g, list) ==
    /\ remainingSeagulls' = remainingSeagulls
    /\ sg' = g \o [i \in 1..NUM_SEAGULLS |-> SeagullSetBounds(NewSeagull)]
    /\ seagulls' = list \o [i \in 1..NUM_SEAGULLS |-> Len(g) + i]
    /\ winScreens' = winScreens + 1
    /\ winDisplay' = "none"
    /\ round' = round + 1

\* initSeagulls() run on the seagull records g and the (emptied) list: the
\* countdown, NUM_SEAGULLS new seagulls, each given its flight bounds
\* (setBounds) and pushed on the list, and one more
\* win-screen element (createWinScreen), hidden, that this.winScreen now
\* points to.
initSeagulls(g, list) ==
    /\ remainingSeagulls' = NUM_SEAGULLS
    /\ sg' = g \o [i \in 1..NUM_SEAGULLS |-> SeagullSetBounds(NewSeagull)]
    /\ seagulls' = list \o [i \in 1..NUM_SEAGULLS |-> Len(g) + i]
    /\ winScreens' = winScreens + 1
    /\ winDisplay' = "none"
    /\ round' = round + 1

\* The loop of resetGame() and of dispose() over the tracked seagulls:
\* the current model of each is removed from its parent.
DetachModels(g, list) ==
    [s \in 1..Len(g) |->
        IF s \in Range(list)
        THEN [g[s] EXCEPT !.parent[g[s].model] = "none"]
        ELSE g[s]]

----------------------------------------------------------------------------
(* PhysicsWorld *)

\* The while loop without the cap on the steps.
RECURSIVE StepLoopUncapped(_)
StepLoopUncapped(st) ==
    IF st.acc >= timeStep
    THEN StepLoopUncapped([acc |-> st.acc - timeStep,
                           steps |-> st.steps + 1,
                           stepped |-> st.stepped + timeStep])
    ELSE st

\* The while loop of PhysicsWorld.update: st = [acc, steps, stepped].
RECURSIVE StepLoop(_)
StepLoop(st) ==
    IF st.acc >= timeStep /\ st.steps < maxSteps
    THEN StepLoop([acc |-> st.acc - timeStep,
                   steps |-> st.steps + 1,
                   stepped |-> st.stepped + timeStep])
    ELSE st

\* update() that drops what is left in the accumulator after its loop.
PhysicsUpdateDropsRest(deltaTime) ==
    LET r == StepLoop([acc |-> accumulator + deltaTime, steps |-> 0, stepped |-> 0])
    IN /\ accumulator' = 0
       /\ steps' = r.steps
       /\ stepped' = r.stepped

\* PhysicsWorld.update(deltaTime)
PhysicsUpdate(deltaTime) ==
    LET r == StepLoop([acc |-> accumulator + deltaTime, steps |-> 0, stepped |-> 0])
    IN /\ accumulator' = r.acc
       /\ steps' = r.steps
       /\ stepped' = r.stepped

\* Array.prototype.indexOf / splice(index, 1) on a sequence.
IndexOf(q, x) ==
    IF x \in Range(q) THEN CHOOSE i \in 1..Len(q) : q[i] = x /\ \A j \in 1..(i-1) : q[j] # x
    ELSE 0

RemoveAt(q, i) == [j \in 1..(Len(q) - 1) |-> IF j < i THEN q[j] ELSE q[j + 1]]

RemoveFirst(q, x) == IF IndexOf(q, x) = 0 THEN q ELSE RemoveAt(q, IndexOf(q, x))

\* CANNON.World.addBody / removeBody on the engine's list.
WorldAdd(w, body) == IF body \in Range(w) THEN w ELSE Append(w, body)
WorldRemove(w, body) == RemoveFirst(w, body)

\* PhysicsWorld.addBody / removeBody on reg = [bodies, world].
AddBody(reg, body) ==
    [bodies |-> Append(reg.bodies, body), world |-> WorldAdd(reg.world, body)]

\* removeBody() without the index test: splice(-1, 1) takes the last element.
RemoveBodyUnchecked(reg, body) ==
    [bodies |-> IF IndexOf(reg.bodies, body) = 0
                THEN SubSeq(reg.bodies, 1, Len(reg.bodies) - 1)
                ELSE RemoveAt(reg.bodies, IndexOf(reg.bodies, body)),
     world |-> WorldRemove(reg.world, body)]

RemoveBody(reg, body) ==
    [bodies |-> RemoveFirst(reg.bodies, body), world |-> WorldRemove(reg.world, body)]

\* A dispose() loop over the live array: after each removal the iterator
\* moves on by one and skips the element that slid into the gap.
RECURSIVE RemoveLive(_, _)
RemoveLive(reg, i) ==
    IF i > Len(reg.bodies)
    THEN reg
    ELSE RemoveLive(RemoveBody(reg, reg.bodies[i]), i + 1)

PhysicsDisposeLive(reg) == RemoveLive(reg, 1)

\* The loop of PhysicsWorld.dispose over the copy this.bodies.slice().
RECURSIVE RemoveEach(_, _)
RemoveEach(reg, copy) ==
    IF copy = <<>>
    THEN reg
    ELSE RemoveEach(RemoveBody(reg, Head(copy)), Tail(copy))

\* PhysicsWorld.dispose() on reg = [bodies, world].
PhysicsDispose(reg) == RemoveEach(reg, reg.bodies)

----------------------------------------------------------------------------
(* Ball *)

\* new Ball(position, velocity, onCollideCallback) at Date.now() = t; cb says
\* whether a collide callback was passed (and so registered on the body).
NewBall(t, cb) ==
    [creationTime |-> t, disposed |-> FALSE, hasCallback |-> cb,
     listening |-> cb, geometry |-> 0, material |-> 0,
     disposeCalls |-> 0, culled |-> 0,
     report |-> [called |-> FALSE, alive |-> FALSE, at |-> 0, disposed |-> FALSE]]

\* Ball.update() returning true exactly up to and including the lifetime.
BallAliveInclusive(b, t) ==
    IF b.disposed THEN FALSE ELSE t - b.creationTime <= LIFETIME

\* The value Ball.update() returns at Date.now() = t.
BallAlive(b, t) ==
    IF b.disposed THEN FALSE ELSE t - b.creationTime < LIFETIME

\* Ball.update() at Date.now() = t; report keeps what the last call returned,
\* when it was made and whether the ball was disposed then (history).
BallUpdate(b, t) ==
    [b EXCEPT !.report = [called |-> TRUE, alive |-> BallAlive(b, t),
                          at |-> t, disposed |-> b.disposed]]

\* Ball.dispose() without the disposed guard.
BallDisposeUnguarded(b) ==
    [b EXCEPT !.listening = FALSE,
              !.geometry = @ + 1,
              !.material = @ + 1,
              !.disposed = TRUE,
              !.disposeCalls = @ + 1]

\* Ball.dispose(): geometry and material count the dispose() calls they
\* got, disposeCalls the calls of Ball.dispose() itself (history).
BallDispose(b) ==
    IF b.disposed
    THEN [b EXCEPT !.disposeCalls = @ + 1]
    ELSE [b EXCEPT !.listening = FALSE,
                   !.geometry = @ + 1,
                   !.material = @ + 1,
                   !.disposed = TRUE,
                   !.disposeCalls = @ + 1]

----------------------------------------------------------------------------
(* ExampleScene: balls *)

\* The ball loop that culls a dead ball and keeps it on the list.
RECURSIVE UpdateBallsKeep(_, _, _)
UpdateBallsKeep(st, i, t) ==
    IF i < 1
    THEN st
    ELSE LET id == st.balls[i]
             b == BallUpdate(st.bl[id], t)
         IN IF b.report.alive
            THEN UpdateBallsKeep([st EXCEPT !.bl[id] = b], i - 1, t)
            ELSE UpdateBallsKeep(
                   [bl |-> [st.bl EXCEPT ![id] = [BallDispose(b) EXCEPT !.culled = @ + 1]],
                    balls |-> st.balls,
                    ballMeshes |-> st.ballMeshes \ {id},
                    reg |-> RemoveBody(st.reg, id)],
                   i - 1, t)

\* The ball loop of ExampleScene.update at Date.now() = t, from index i down:
\* st = [bl, balls, ballMeshes, reg].
RECURSIVE UpdateBalls(_, _, _)
UpdateBalls(st, i, t) ==
    IF i < 1
    THEN st
    ELSE LET id == st.balls[i]
             b == BallUpdate(st.bl[id], t)
         IN IF b.report.alive
            THEN UpdateBalls([st EXCEPT !.bl[id] = b], i - 1, t)
            ELSE UpdateBalls(
                   [bl |-> [st.bl EXCEPT ![id] = [BallDispose(b) EXCEPT !.culled = @ + 1]],
                    balls |-> RemoveAt(st.balls, i),
                    ballMeshes |-> st.ballMeshes \ {id},
                    reg |-> RemoveBody(st.reg, id)],
                   i - 1, t)

\* The ball loop of ExampleScene.dispose, from index i up: st = [bl, reg].
RECURSIVE DisposeBalls(_, _)
DisposeBalls(st, i) ==
    IF i > Len(balls)
    THEN st
    ELSE DisposeBalls([bl |-> [st.bl EXCEPT ![balls[i]] = BallDispose(@)],
                       reg |-> RemoveBody(st.reg, balls[i])],
                      i + 1)

\* A frame that culls visibility before it has updated the balls.
FrameStagesCullFirst(list, ballList) ==
    <<<<"physics", 0>>, <<"ocean", 0>>>>
    \o [i \in 1..Len(list) |-> <<"seagull", list[i]>>]
    \o <<<<"frustum", 0>>>>
    \o [i \in 1..Len(ballList) |-> <<"ball", ballList[Len(ballList) + 1 - i]>>]

\* The calls one ExampleScene.update() makes, in the order it makes them,
\* for the tracked seagulls list and the tracked balls ballList:
\* physicsWorld.update, oceanRenderer.update, seagull.update for each
\* seagull from the first, ball.update (and the cull) for each ball from the
\* last, and the frustum pass over the scene.
FrameStages(list, ballList) ==
    <<<<"physics", 0>>, <<"ocean", 0>>>>
    \o [i \in 1..Len(list) |-> <<"seagull", list[i]>>]
    \o [i \in 1..Len(ballList) |-> <<"ball", ballList[Len(ballList) + 1 - i]>>]
    \o <<<<"frustum", 0>>>>

----------------------------------------------------------------------------
(* The state after new ExampleScene(...): initSeagulls() has run and the   *)
(* physics world holds its ground plane.                                   *)

\* No intersection: intersectObjects() returned an empty array.  Otherwise
\* intersections[0] is
\*   kind       "seagull" if its object carries the isSeagull tag, "surface"
\*              if not
\*   gull       the seagull one of whose visuals holds the object (0: none):
\*              the loaded model if the object is tagged, the placeholder
\*              if not
\*   distance   intersections[0].distance
\*   normal     face.normal, in the object's own space
\*   rot        the object's own rotation (object.quaternion), and parentRot
\*              the rotation of the group that holds it, in quarter turns
NoHit ==
    [kind |-> "none", gull |-> 0, distance |-> 0, normal |-> Vec(0, 0, 0),
     rot |-> 0, parentRot |-> 0]

\* What update() last did to a ball (history): nothing yet.
\*   kind    "seagull", "bounce" or "free" (no intersection resolved)
\*   delta   clock.delta of that frame
\*   from    position and velocity of the ball when the frame began
\*   hit     what the ray cast for the ball returned
NoStep ==
    [kind |-> "none", delta |-> 0,
     from |-> [position |-> Vec(0, 0, 0), velocity |-> Vec(0, 0, 0)],
     hit |-> NoHit]

\* new FirstPersonControls(...): no ball thrown; ballGeometry and
\* ballMaterial, which every ball mesh shares, count their dispose() calls.
\*   balls     every ball mesh ever thrown, by id: the Date.now() of the
\*             throw, whether it is a child of the scene, its lifetime
\*             timer, the dispose() calls made through ball.geometry, its
\*             position and velocity, and what update() last did to it
\*   tracked   FirstPersonControls.balls: the ids tracked, in order
\*   camera    position and viewing direction of the camera (a new
\*             PerspectiveCamera sits at the origin and looks along -z)
\*   collidableMeshes  the collidable set: <<"fallback", s>> and
\*             <<"loaded", s>> for the meshes of a visual of seagull s,
\*             <<"ball", b>> for a raycast ball, <<"mesh", id>> for the mesh
\*             of a physics ball
\*   elapsed   clock.elapsed at the last update()
\*   rebuilds  clock.elapsed at each scene traversal that rebuilt the
\*             collidable set (history)
\*   frames    number of update() calls (history)
NewControls ==
    [balls |-> <<>>, tracked |-> <<>>, geometry |-> 0, material |-> 0,
     disposed |-> FALSE,
     camera |-> [position |-> Vec(0, 0, 0), direction |-> Vec(0, 0, -1)],
     collidableMeshes |-> {}, lastCollisionUpdate |-> 0, elapsed |-> 0,
     rebuilds |-> <<>>, frames |-> 0]

\* No direct call counted yet:
\*   missedRemovals  removeBody() calls for a body the registry did not hold
\*   worldDisposals  PhysicsWorld.dispose() calls
\*   lateUpdates     update() calls on a seagull whose model load had failed,
\*                   lateSeagull and lateDelta being the seagull and the
\*                   speed * delta of the last of them
\*   loadParent      the parent the current model had when the last observed
\*                   load completed ("unknown" before)
\*   stages          the calls the last ExampleScene.update() made, in order
\*   collisions      collide events delivered to onBallCollide(), and
\*                   lastCollision the last of them
\*   bounds, flight  the box of the last observed setBounds() and the path
\*                   it generated
\*   hitOn           the seagull of the last observed hit() call (0 before),
\*                   hitStale telling whether it was off the scene's list
\*   fed, worldSteps the sum of the deltaTime of the observed
\*                   PhysicsWorld.update() calls and the world steps they made
NoCalls == [missedRemovals |-> 0, worldDisposals |-> 0,
            lateUpdates |-> 0, lateSeagull |-> 0, lateDelta |-> 0,
            loadParent |-> "unknown",
            stages |-> <<>>,
            collisions |-> 0,
            lastCollision |-> [hasBody |-> FALSE, seagull |-> 0, tagged |-> FALSE],
            bounds |-> DefaultBounds,
            flight |-> [closed |-> FALSE, points |-> <<>>],
            hitOn |-> 0, hitStale |-> FALSE,
            fed |-> 0, worldSteps |-> 0]

Init ==
    /\ sg = [i \in 1..NUM_SEAGULLS |-> SeagullSetBounds(NewSeagull)]
    /\ seagulls = [i \in 1..NUM_SEAGULLS |-> i]
    /\ remainingSeagulls = NUM_SEAGULLS
    /\ winDisplay = "none"
    /\ winScreens = 1
    /\ winSignals = 0
    /\ staleHits = 0
    /\ round = 1
    /\ sceneDisposed = FALSE
    /\ hist = NoCalls
    /\ ctl = NewControls
    /\ accumulator = 0
    /\ steps = 0
    /\ stepped = 0
    /\ bodies = AddBody([bodies |-> <<>>, world |-> <<>>], GroundBody).bodies
    /\ worldBodies = AddBody([bodies |-> <<>>, world |-> <<>>], GroundBody).world
    /\ now = 0
    /\ bl = <<>>
    /\ balls = <<>>
    /\ ballMeshes = {}

----------------------------------------------------------------------------
(* Seagull events *)

\* The 500 ms timer initSeagulls() sets for seagull s: the model is never
\* null once the constructor has run, so the retry branch is not taken and
\* the current model is added to the scene.  Timers of equal delay fire in
\* the order they were set.
AttachTimer(s) ==
    /\ sg[s].timer = "pending"
    /\ \A r \in 1..(s - 1) : sg[r].timer = "fired"
    /\ sg' = [sg EXCEPT ![s].timer = "fired",
                        ![s].parent[sg[s].model] = "scene",
                        ![s].collidable = (sg[s].model = "loaded")]
    /\ UNCHANGED <<seagulls, remainingSeagulls, winDisplay, winScreens, winSignals,
                   staleHits, round, sceneDisposed, ctl, hist, physicsVars, registryVars,
                   now, ballVars>>

\* The GLTF load of seagull s succeeds.
LoadComplete(s) ==
    /\ sg[s].load = "pending"
    /\ sg' = [sg EXCEPT ![s] = SeagullLoaded(@)]
    /\ UNCHANGED <<seagulls, remainingSeagulls, winDisplay, winScreens, winSignals,
                   staleHits, round, sceneDisposed, ctl, hist, physicsVars, registryVars,
                   now, ballVars>>

\* A failing load that takes the placeholder out of service.
LoadErrorDropsModel(s) ==
    /\ sg[s].load = "pending"
    /\ Cardinality({r \in 1..Len(sg) : sg[r].load = "failed"}) < MaxLoadErrors
    /\ sg' = [sg EXCEPT ![s].load = "failed", ![s].modelLoaded = FALSE]
    /\ UNCHANGED <<seagulls, remainingSeagulls, winDisplay, winScreens, winSignals,
                   staleHits, round, sceneDisposed, ctl, hist, physicsVars, registryVars,
                   now, ballVars>>

\* The GLTF load of seagull s fails: the error is logged, nothing else.
LoadError(s) ==
    /\ sg[s].load = "pending"
    /\ Cardinality({r \in 1..Len(sg) : sg[r].load = "failed"}) < MaxLoadErrors
    /\ sg' = [sg EXCEPT ![s].load = "failed"]
    /\ UNCHANGED <<seagulls, remainingSeagulls, winDisplay, winScreens, winSignals,
                   staleHits, round, sceneDisposed, ctl, hist, physicsVars, registryVars,
                   now, ballVars>>

\* seagull.hit() and what its callback does to the scene.
Hit(s) ==
    /\ sg[s].isHit => staleHits < MaxStaleHits
    /\ staleHits' = IF sg[s].isHit THEN staleHits + 1 ELSE staleHits
    /\ sg' = [sg EXCEPT ![s] = SeagullHit(@)]
    /\ IF SeagullHit(sg[s]).onHitCalls > sg[s].onHitCalls
       THEN handleSeagullHit
       ELSE UNCHANGED <<remainingSeagulls, winDisplay, winSignals>>
    /\ UNCHANGED <<seagulls, winScreens, round, sceneDisposed, hist,
                   physicsVars, registryVars, now, ballVars>>

----------------------------------------------------------------------------
(* FirstPersonControls *)

\* The ball loop of update() finds, within the travel distance of a ball, a
\* mesh of collidableMeshes that is tagged isSeagull, and a seagull of
\* scene.seagulls whose current model holds that mesh.  Only the meshes of
\* a loaded model carry the tag (loadModel tags them; createFallbackModel
\* tags the group alone, and the set is searched without recursion).  The
\* set is rebuilt from the scene at intervals and is stale in between, so
\* it may hold the meshes of any visual that has been in the scene.
RaycastHit(s) ==
    /\ s \in Range(seagulls)
    /\ sg[s].model = "loaded"
    /\ sg[s].collidable
    /\ Hit(s)
    /\ UNCHANGED ctl

----------------------------------------------------------------------------
(* ExampleScene *)

\* The click on the "Play Again" button of the visible win screen.
ResetGame ==
    /\ winDisplay = "block"
    /\ ~sceneDisposed
    /\ round < MaxRounds
    /\ initSeagulls(DetachModels(sg, seagulls), <<>>)
    /\ UNCHANGED <<winSignals, staleHits, sceneDisposed, ctl, hist, physicsVars,
                   registryVars, now, ballVars>>

\* ExampleScene.update(): clock.delta = dt, every seagull clock reports
\* speed * delta = d, and Date.now() has advanced by e.
Frame(dt, d, e) ==
    /\ ~sceneDisposed
    /\ now + e <= MaxNow
    /\ accumulator + dt <= MaxAccumulator
    /\ \A s \in Range(seagulls) : SeagullUpdate(sg[s], d).progress <= MaxProgress
    /\ PhysicsUpdate(dt)
    /\ sg' = [s \in 1..Len(sg) |->
                IF s \in Range(seagulls) THEN SeagullUpdate(sg[s], d) ELSE sg[s]]
    /\ now' = now + e
    /\ LET r == UpdateBalls([bl |-> bl, balls |-> balls, ballMeshes |-> ballMeshes,
                             reg |-> [bodies |-> bodies, world |-> worldBodies]],
                            Len(balls), now + e)
       IN /\ bl' = r.bl
          /\ balls' = r.balls
          /\ ballMeshes' = r.ballMeshes
          /\ bodies' = r.reg.bodies
          /\ worldBodies' = r.reg.world
    /\ UNCHANGED <<seagulls, remainingSeagulls, winDisplay, winScreens, winSignals,
                   staleHits, round, sceneDisposed, ctl>>

\* A frame of the running game.
Update(dt, d, e) == Frame(dt, d, e) /\ UNCHANGED hist

\* A frame of the running game, the order of its calls recorded.
UpdateSeen(dt, d, e) ==
    /\ Frame(dt, d, e)
    /\ hist' = [hist EXCEPT !.stages = FrameStages(seagulls, balls)]

\* throwBall() without the push onto this.balls (line 470): the ball's body
\* and mesh are added, the ball is not tracked.
ThrowBallUntracked(e) ==
    /\ ~sceneDisposed
    /\ Len(bl) < MaxBalls
    /\ now + e <= MaxNow
    /\ now' = now + e
    /\ bl' = Append(bl, NewBall(now + e, TRUE))
    /\ LET reg == AddBody([bodies |-> bodies, world |-> worldBodies], Len(bl) + 1)
       IN bodies' = reg.bodies /\ worldBodies' = reg.world
    /\ ballMeshes' = ballMeshes \cup {Len(bl) + 1}
    /\ UNCHANGED <<balls, seagullVars, sceneDisposed, ctl, hist, physicsVars>>

\* ExampleScene.throwBall(position, velocity), Date.now() having advanced by e.
ThrowBall(e) ==
    /\ ~sceneDisposed
    /\ Len(bl) < MaxBalls
    /\ now + e <= MaxNow
    /\ now' = now + e
    /\ bl' = Append(bl, NewBall(now + e, TRUE))
    /\ LET reg == AddBody([bodies |-> bodies, world |-> worldBodies], Len(bl) + 1)
       IN bodies' = reg.bodies /\ worldBodies' = reg.world
    /\ ballMeshes' = ballMeshes \cup {Len(bl) + 1}
    /\ balls' = Append(balls, Len(bl) + 1)
    /\ UNCHANGED <<seagullVars, sceneDisposed, ctl, hist, physicsVars>>

\* ExampleScene.dispose(): the models of the tracked seagulls leave the
\* scene and the list is emptied (so the later loop over the seagulls'
\* physics bodies runs over nothing), every tracked ball loses its body and
\* is disposed, and the win screen this.winScreen points to leaves the
\* document.
SceneDispose ==
    /\ ~sceneDisposed
    /\ sceneDisposed' = TRUE
    /\ sg' = DetachModels(sg, seagulls)
    /\ seagulls' = <<>>
    /\ LET r == DisposeBalls([bl |-> bl, reg |-> [bodies |-> bodies, world |-> worldBodies]], 1)
       IN /\ bl' = r.bl
          /\ bodies' = r.reg.bodies
          /\ worldBodies' = r.reg.world
    /\ balls' = <<>>
    /\ winScreens' = winScreens - 1
    /\ UNCHANGED <<remainingSeagulls, winDisplay, winSignals, staleHits, round,
                   hist, ctl, physicsVars, now, ballMeshes>>

----------------------------------------------------------------------------
(* FirstPersonControls: the raycast balls *)

\* throwBall(): a mesh of the shared geometry and material enters the scene
\* and the list, half a metre in front of the camera and with BALL_SPEED
\* along the viewing direction, and its BALL_LIFETIME timer is set.
ControlsThrow ==
    /\ ~ctl.disposed
    /\ Len(ctl.balls) < MaxThrows
    /\ ctl' = [ctl EXCEPT
                 !.balls = Append(@, [thrownAt |-> now, inScene |-> TRUE,
                                      timer |-> "pending", releases |-> 0,
                                      position |-> Plus(ctl.camera.position,
                                                        Times(ctl.camera.direction, ThrowOffset)),
                                      velocity |-> Times(ctl.camera.direction, BALL_SPEED),
                                      last |-> NoStep]),
                 !.tracked = Append(@, Len(ctl.balls) + 1)]
    /\ UNCHANGED <<seagullVars, sceneDisposed, hist, physicsVars, registryVars,
                   now, ballVars>>

\* The BALL_LIFETIME timer of ball b fires: the ball leaves the scene if it
\* is still there, leaves the list if it is still on it, and
\* ball.geometry.dispose() is called.
ControlsBallTimer(b) ==
    /\ ctl.balls[b].timer = "pending"
    /\ now - ctl.balls[b].thrownAt = BALL_LIFETIME
    /\ ctl' = [ctl EXCEPT
                 !.balls[b] = [@ EXCEPT !.timer = "fired", !.inScene = FALSE,
                                        !.releases = @ + 1],
                 !.tracked = RemoveFirst(@, b),
                 !.geometry = @ + 1]
    /\ UNCHANGED <<seagullVars, sceneDisposed, hist, physicsVars, registryVars,
                   now, ballVars>>

\* The ball loop of update() finds a seagull mesh in the path of the tracked
\* ball b (see RaycastHit): the seagull is hit, and the ball leaves the
\* scene and the list.
ControlsBallHit(b, s) ==
    /\ b \in Range(ctl.tracked)
    /\ s \in Range(seagulls)
    /\ sg[s].model = "loaded"
    /\ sg[s].collidable
    /\ Hit(s)
    /\ ctl' = IF ctl.balls[b].inScene
              THEN [ctl EXCEPT !.balls[b].inScene = FALSE,
                               !.tracked = RemoveFirst(@, b)]
              ELSE ctl

\* Date.now() advances by e; a timer fires when its delay has run out, so
\* time does not pass a pending deadline.
ControlsTick(e) ==
    /\ now + e <= MaxNow
    /\ \A b \in 1..Len(ctl.balls) :
          ctl.balls[b].timer = "pending" => now + e - ctl.balls[b].thrownAt <= BALL_LIFETIME
    /\ now' = now + e
    /\ UNCHANGED <<seagullVars, sceneDisposed, ctl, hist, physicsVars, registryVars,
                   ballVars>>

\* The ball loop of FirstPersonControls.dispose() from index i up, over
\* c = the controls record.
RECURSIVE ControlsDisposeBalls(_, _)
ControlsDisposeBalls(c, i) ==
    IF i > Len(c.tracked)
    THEN c
    ELSE ControlsDisposeBalls(
            [c EXCEPT !.balls[c.tracked[i]] =
                          [@ EXCEPT !.inScene = FALSE, !.releases = @ + 1],
                      !.geometry = @ + 1,
                      !.material = @ + 1],
            i + 1)

\* FirstPersonControls.dispose(): every tracked ball leaves the scene and
\* has its geometry and material disposed, the list is emptied and the
\* shared geometry and material are disposed once more.  No timer is
\* cancelled.
ControlsDispose ==
    /\ ~ctl.disposed
    /\ ctl' = [ControlsDisposeBalls(ctl, 1) EXCEPT !.tracked = <<>>,
                                                   !.geometry = @ + 1,
                                                   !.material = @ + 1,
                                                   !.disposed = TRUE]
    /\ UNCHANGED <<seagullVars, sceneDisposed, hist, physicsVars, registryVars,
                   now, ballVars>>

----------------------------------------------------------------------------
(* FirstPersonControls.update *)

\* What a traversal of the scene collects: every Mesh and every object
\* tagged isSeagull, that is the raycast balls in the scene, the visuals of
\* the seagulls that are children of the scene, and the physics balls.
SceneObjects(c, g, meshes) ==
    {<<"ball", b>> : b \in {k \in 1..Len(c.balls) : c.balls[k].inScene}}
    \cup {o \in Visuals \X (1..Len(g)) : g[o[2]].parent[o[1]] = "scene"}
    \cup {<<"mesh", id>> : id \in meshes}

\* The head of update() on the controls record c, the frame's clock.delta
\* being e: findCollidableMeshes() if the set is empty, then
\* initSpatialPartitioning() if more than COLLISION_UPDATE_INTERVAL has
\* passed since the last one; found is what the scene holds and near the
\* part of it within 50 units of the player.
Rebuild(c, e, found, near) ==
    LET c0 == [c EXCEPT !.elapsed = @ + e, !.frames = @ + 1]
        c1 == IF c0.collidableMeshes = {}
              THEN [c0 EXCEPT !.collidableMeshes = found,
                              !.rebuilds = Append(@, c0.elapsed)]
              ELSE c0
    IN IF c1.elapsed - c1.lastCollisionUpdate > COLLISION_UPDATE_INTERVAL
       THEN [c1 EXCEPT !.lastCollisionUpdate = c1.elapsed,
                       !.collidableMeshes = near,
                       !.rebuilds = Append(@, c1.elapsed)]
       ELSE c1

\* The test that resolves an intersection, with <= for <.
ResolvedInclusive(c, ball, h, e) ==
    /\ c.collidableMeshes # {}
    /\ h.kind # "none"
    /\ h.distance <= Length(ball.velocity) * e

\* Whether update() resolves the intersection h for the ball: the set is
\* not empty, the ray met something, and the nearest of it is within the
\* distance the ball travels in this frame.
Resolved(c, ball, h, e) ==
    /\ c.collidableMeshes # {}
    /\ h.kind # "none"
    /\ h.distance < Length(ball.velocity) * e

\* A floor test that reflects without moving the ball back up.
BallMoveUnclamped(ball, e) ==
    LET p1 == Plus(ball.position, Times(ball.velocity, e))
        v1 == [ball.velocity EXCEPT !.y = @ - Gravity * e]
        vy == Ratio(0 - v1.y, BOUNCE_FACTOR.num, BOUNCE_FACTOR.den)
        v2 == IF p1.y < 0
              THEN Vec(Ratio(v1.x, FloorDamping.num, FloorDamping.den),
                       IF vy < TinyBounce /\ 0 - vy < TinyBounce THEN 0 ELSE vy,
                       Ratio(v1.z, FloorDamping.num, FloorDamping.den))
              ELSE v1
    IN [ball EXCEPT !.position = p1,
                    !.velocity = IF Dot(v2, v2) < RestSpeedSq THEN Vec(0, 0, 0) ELSE v2]

\* The tail of the ball loop: integration, gravity, the floor at y = 0 and
\* the rest test.
BallMove(ball, e) ==
    LET p1 == Plus(ball.position, Times(ball.velocity, e))
        v1 == [ball.velocity EXCEPT !.y = @ - Gravity * e]
        vy == Ratio(0 - v1.y, BOUNCE_FACTOR.num, BOUNCE_FACTOR.den)
        v2 == IF p1.y < 0
              THEN Vec(Ratio(v1.x, FloorDamping.num, FloorDamping.den),
                       IF vy < TinyBounce /\ 0 - vy < TinyBounce THEN 0 ELSE vy,
                       Ratio(v1.z, FloorDamping.num, FloorDamping.den))
              ELSE v1
    IN [ball EXCEPT !.position = IF p1.y < 0 THEN [p1 EXCEPT !.y = 0] ELSE p1,
                    !.velocity = IF Dot(v2, v2) < RestSpeedSq THEN Vec(0, 0, 0) ELSE v2]

\* The bounce branch: the face normal is turned by object.quaternion, the
\* velocity is reflected about it and scaled by BOUNCE_FACTOR, and the ball
\* is put at the intersection point, NormalOffset along that normal.
BallBounce(ball, h) ==
    LET normalWorld == Turn(h.normal, h.rot)
    IN [ball EXCEPT
          !.velocity = RatioV(Reflect(ball.velocity, normalWorld),
                              BOUNCE_FACTOR.num, BOUNCE_FACTOR.den),
          !.position = Plus(PointAt(ball.position, ball.velocity, h.distance),
                            Times(normalWorld, NormalOffset))]

\* A seagull branch that hits the first seagull of the list, whichever
\* seagull the object belongs to.
BallSeagullHitFirst(st, b, h, list) ==
    [ctl |-> IF st.ctl.balls[b].inScene
             THEN [st.ctl EXCEPT !.balls[b].inScene = FALSE,
                                 !.tracked = RemoveFirst(@, b)]
             ELSE st.ctl,
     scene |-> IF list # <<>> THEN SceneHit(st.scene, list[1]) ELSE st.scene]

\* A seagull branch that leaves the ball in flight.
BallSeagullHitKeepsBall(st, b, h, list) ==
    [st EXCEPT !.scene = IF h.gull \in Range(list) THEN SceneHit(st.scene, h.gull)
                         ELSE st.scene]

\* The seagull branch on st = [ctl, scene] (scene as for SceneHit): the
\* seagull of scene.seagulls (list) whose model holds the object is hit,
\* and the ball leaves the scene and the list if it is a child of the scene.
BallSeagullHit(st, b, h, list) ==
    [ctl |-> IF st.ctl.balls[b].inScene
             THEN [st.ctl EXCEPT !.balls[b].inScene = FALSE,
                                 !.tracked = RemoveFirst(@, b)]
             ELSE st.ctl,
     scene |-> IF h.gull \in Range(list) THEN SceneHit(st.scene, h.gull)
               ELSE st.scene]

\* The body of the ball loop for ball b, the ray cast for it having
\* returned h, with clock.delta = e; last records what was done.
BallStep(st, b, h, e, list) ==
    LET ball == st.ctl.balls[b]
        seen(kind) == [kind |-> kind, delta |-> e,
                       from |-> [position |-> ball.position, velocity |-> ball.velocity],
                       hit |-> h]
    IN IF Resolved(st.ctl, ball, h, e) /\ h.kind = "seagull"
       THEN [BallSeagullHit(st, b, h, list) EXCEPT !.ctl.balls[b].last = seen("seagull")]
       ELSE IF Resolved(st.ctl, ball, h, e)
            THEN [st EXCEPT !.ctl.balls[b] =
                      [BallBounce(ball, h) EXCEPT !.last = seen("bounce")]]
            ELSE [st EXCEPT !.ctl.balls[b] = [BallMove(ball, e) EXCEPT !.last = seen("free")]]

\* The ball loop of update(), from index i of the list down; hits gives for
\* each ball what its ray cast returns.
RECURSIVE BallLoop(_, _, _, _, _)
BallLoop(st, i, hits, e, list) ==
    IF i < 1
    THEN st
    ELSE BallLoop(BallStep(st, st.ctl.tracked[i], hits[st.ctl.tracked[i]], e, list),
                  i - 1, hits, e, list)

\* The faces a ray may meet on a mesh that is not tagged: a floor, a wall
\* facing +z, the same wall as a mesh turned a quarter, and as a mesh of a
\* group turned a quarter (the placeholder of a seagull, whose group
\* update() turns to the heading).
Faces ==
    {[normal |-> Vec(0, 1, 0), rot |-> 0, parentRot |-> 0],
     [normal |-> Vec(0, 0, 1), rot |-> 0, parentRot |-> 0],
     [normal |-> Vec(-1, 0, 0), rot |-> 1, parentRot |-> 0],
     [normal |-> Vec(-1, 0, 0), rot |-> 0, parentRot |-> 1]}

Distances == {5000, 10000}

FrameDeltas == {0, 1, 2}

\* What the ray cast for ball b with velocity v may return, given the
\* collidable set and the seagulls g: nothing; a mesh of a loaded seagull
\* model of the set; or a face of an untagged mesh of the set (a mesh of a
\* placeholder, a physics ball, another ball), met from its front, a face
\* of a turned group only on a placeholder that update() has turned.
RayResults(set, g, v, b) ==
    {NoHit}
    \cup {[kind |-> "seagull", gull |-> o[2], distance |-> d, normal |-> Vec(0, 1, 0),
           rot |-> 0, parentRot |-> 0] :
            o \in {x \in set : x[1] = "loaded"}, d \in Distances}
    \cup {[kind |-> "surface", gull |-> IF m[1][1] = "fallback" THEN m[1][2] ELSE 0,
           distance |-> d, normal |-> m[2].normal,
           rot |-> m[2].rot, parentRot |-> m[2].parentRot] :
            m \in {x \in set \X Faces :
                     /\ x[1][1] # "loaded"
                     /\ x[1][1] = "ball" => x[1][2] # b
                     /\ Dot(v, Turn(x[2].normal, x[2].rot + x[2].parentRot)) < 0
                     /\ x[2].parentRot # 0 =>
                           x[1][1] = "fallback" /\ g[x[1][2]].at.path # 0},
            d \in Distances}

\* FirstPersonControls.update() with clock.delta = e (clock.elapsed grows by
\* it); inReach says whether the player is within 50 units of the meshes of
\* the scene, hits what the ray cast of each ball returns.  The movement of
\* the player (the camera under pointer lock) is not modelled.
ControlsUpdate(e, inReach, hits) ==
    /\ ~ctl.disposed
    /\ \E c \in {LET found == SceneObjects(ctl, sg, ballMeshes)
                  IN Rebuild(ctl, e, found, IF inReach THEN found ELSE {})} :
          /\ \A b \in Range(ctl.tracked) :
                hits[b] \in RayResults(c.collidableMeshes, sg, ctl.balls[b].velocity, b)
          /\ \E r \in {BallLoop([ctl |-> c,
                                scene |-> [sg |-> sg,
                                           remainingSeagulls |-> remainingSeagulls,
                                           winDisplay |-> winDisplay,
                                           winSignals |-> winSignals,
                                           staleHits |-> staleHits]],
                               Len(c.tracked), hits, e, seagulls)} :
                /\ r.scene.staleHits <= MaxStaleHits
                /\ ctl' = r.ctl
                /\ sg' = r.scene.sg
                /\ remainingSeagulls' = r.scene.remainingSeagulls
                /\ winDisplay' = r.scene.winDisplay
                /\ winSignals' = r.scene.winSignals
                /\ staleHits' = r.scene.staleHits
    /\ UNCHANGED <<seagulls, winScreens, round, sceneDisposed, hist, physicsVars,
                   registryVars, now, ballVars>>

\* controls.lookAt(...): the camera turns to the direction dir.
CameraLook(dir) ==
    /\ ~ctl.disposed
    /\ ctl.camera.direction # dir
    /\ ctl' = [ctl EXCEPT !.camera.direction = dir]
    /\ UNCHANGED <<seagullVars, sceneDisposed, hist, physicsVars, registryVars,
                   now, ballVars>>

----------------------------------------------------------------------------
(* The classes driven directly *)

\* seagull.hit() from any caller.
HitCall(s) == Hit(s) /\ UNCHANGED ctl

\* seagull.hit() from a caller that holds a reference to seagull s, of the
\* current round or of an earlier one, the call recorded.
HitSeen(s) ==
    /\ sg[s].isHit => staleHits < MaxStaleHits
    /\ staleHits' = IF sg[s].isHit THEN staleHits + 1 ELSE staleHits
    /\ sg' = [sg EXCEPT ![s] = SeagullHit(@)]
    /\ IF SeagullHit(sg[s]).onHitCalls > sg[s].onHitCalls
       THEN handleSeagullHit
       ELSE UNCHANGED <<remainingSeagulls, winDisplay, winSignals>>
    /\ hist' = [hist EXCEPT !.hitOn = s, !.hitStale = (s \notin Range(seagulls))]
    /\ UNCHANGED <<seagulls, winScreens, round, sceneDisposed, ctl,
                   physicsVars, registryVars, now, ballVars>>

\* seagull.update() with the seagull clock reporting speed * delta = d ticks.
SeagullUpdateCall(s, d) ==
    /\ SeagullUpdate(sg[s], d).progress <= MaxProgress
    /\ sg[s].load = "failed" => hist.lateUpdates < MaxLateUpdates
    /\ hist' = IF sg[s].load = "failed"
               THEN [hist EXCEPT !.lateUpdates = @ + 1,
                                 !.lateSeagull = s,
                                 !.lateDelta = d]
               ELSE hist
    /\ sg' = [sg EXCEPT ![s] = SeagullUpdate(@, d)]
    /\ UNCHANGED <<seagulls, remainingSeagulls, winDisplay, winScreens, winSignals,
                   staleHits, round, sceneDisposed, ctl, physicsVars, registryVars,
                   now, ballVars>>

\* The GLTF load of seagull s succeeds (LoadComplete), and the parent its
\* model had at that moment is recorded.
LoadCompleteSeen(s) ==
    /\ sg[s].load = "pending"
    /\ sg' = [sg EXCEPT ![s] = SeagullLoaded(@)]
    /\ hist' = [hist EXCEPT !.loadParent = sg[s].parent[sg[s].model]]
    /\ UNCHANGED <<seagulls, remainingSeagulls, winDisplay, winScreens, winSignals,
                   staleHits, round, sceneDisposed, ctl, physicsVars, registryVars,
                   now, ballVars>>

\* The physics engine delivers the collide event ev of a ball's body to the
\* callback the scene registered (onBallCollide).
BallCollideCall(ev) ==
    /\ hist.collisions < MaxCollisions
    /\ hist' = [hist EXCEPT !.collisions = @ + 1, !.lastCollision = ev]
    /\ LET r == onBallCollide([sg |-> sg, remainingSeagulls |-> remainingSeagulls,
                               winDisplay |-> winDisplay, winSignals |-> winSignals,
                               staleHits |-> staleHits], ev)
       IN /\ sg' = r.sg
          /\ remainingSeagulls' = r.remainingSeagulls
          /\ winDisplay' = r.winDisplay
          /\ winSignals' = r.winSignals
          /\ staleHits' = r.staleHits
    /\ UNCHANGED <<seagulls, winScreens, round, sceneDisposed, ctl, physicsVars,
                   registryVars, now, ballVars>>

\* seagull.setBounds(min, max)
SetBoundsCall(s) ==
    /\ sg[s].path < MaxPaths
    /\ sg' = [sg EXCEPT ![s] = SeagullSetBounds(@)]
    /\ UNCHANGED <<seagulls, remainingSeagulls, winDisplay, winScreens, winSignals,
                   staleHits, round, sceneDisposed, ctl, hist, physicsVars, registryVars,
                   now, ballVars>>

\* seagull.setBounds(bounds.min, bounds.max), the path it generates recorded;
\* n and rnd are what Math.random() returns during the call.
SetBoundsSeen(s, bounds, n, rnd) ==
    /\ sg[s].path < MaxPaths
    /\ sg' = [sg EXCEPT ![s] = SeagullSetBounds(@)]
    /\ hist' = [hist EXCEPT !.bounds = bounds,
                            !.flight = createRandomPath(bounds, n, rnd)]
    /\ UNCHANGED <<seagulls, remainingSeagulls, winDisplay, winScreens, winSignals,
                   staleHits, round, sceneDisposed, ctl, physicsVars, registryVars,
                   now, ballVars>>

\* seagull.dispose()
SeagullDisposeCall(s) ==
    /\ sg[s].disposed[sg[s].model] < MaxSeagullDisposals
    /\ sg' = [sg EXCEPT ![s] = SeagullDispose(@)]
    /\ UNCHANGED <<seagulls, remainingSeagulls, winDisplay, winScreens, winSignals,
                   staleHits, round, sceneDisposed, ctl, hist, physicsVars, registryVars,
                   now, ballVars>>

\* physicsWorld.update(dt) for any frame delta.
PhysicsUpdateCall(dt) ==
    /\ accumulator + dt <= MaxAccumulator
    /\ PhysicsUpdate(dt)
    /\ UNCHANGED <<seagullVars, sceneDisposed, ctl, hist, registryVars, now, ballVars>>

\* physicsWorld.update(dt) with a frame delta no longer than one call can
\* consume, the time fed and the steps made summed up.
PhysicsUpdateSeen(dt) ==
    /\ dt <= maxSteps * timeStep
    /\ hist.fed + dt <= MaxFed
    /\ PhysicsUpdate(dt)
    /\ hist' = [hist EXCEPT !.fed = @ + dt, !.worldSteps = @ + steps']
    /\ UNCHANGED <<seagullVars, sceneDisposed, ctl, registryVars, now, ballVars>>

\* physicsWorld.addBody(body)
AddBodyCall(body) ==
    /\ Len(bodies) < MaxRegistry
    /\ LET reg == AddBody([bodies |-> bodies, world |-> worldBodies], body)
       IN bodies' = reg.bodies /\ worldBodies' = reg.world
    /\ UNCHANGED <<seagullVars, sceneDisposed, ctl, hist, physicsVars, now, ballVars>>

\* physicsWorld.removeBody(body)
RemoveBodyCall(body) ==
    /\ body \notin Range(bodies) => hist.missedRemovals < MaxMissedRemovals
    /\ hist' = IF body \in Range(bodies) THEN hist
               ELSE [hist EXCEPT !.missedRemovals = @ + 1]
    /\ LET reg == RemoveBody([bodies |-> bodies, world |-> worldBodies], body)
       IN bodies' = reg.bodies /\ worldBodies' = reg.world
    /\ UNCHANGED <<seagullVars, sceneDisposed, ctl, physicsVars, now, ballVars>>

\* physicsWorld.dispose(); the object stays usable afterwards.
PhysicsDisposeCall ==
    /\ hist.worldDisposals < MaxWorldDisposals
    /\ hist' = [hist EXCEPT !.worldDisposals = @ + 1]
    /\ LET reg == PhysicsDispose([bodies |-> bodies, world |-> worldBodies])
       IN bodies' = reg.bodies /\ worldBodies' = reg.world
    /\ UNCHANGED <<seagullVars, sceneDisposed, ctl, physicsVars, now, ballVars>>

\* Date.now() advances by e.
Tick(e) ==
    /\ now + e <= MaxNow
    /\ now' = now + e
    /\ UNCHANGED <<seagullVars, sceneDisposed, ctl, hist, physicsVars, registryVars, ballVars>>

\* new Ball(...) with or without a collide callback.
CreateBall(cb) ==
    /\ Len(bl) < MaxLoneBalls
    /\ bl' = Append(bl, NewBall(now, cb))
    /\ UNCHANGED <<seagullVars, sceneDisposed, ctl, hist, physicsVars, registryVars, now,
                   balls, ballMeshes>>

\* ball.update()
BallUpdateCall(b) ==
    /\ bl' = [bl EXCEPT ![b] = BallUpdate(@, now)]
    /\ UNCHANGED <<seagullVars, sceneDisposed, ctl, hist, physicsVars, registryVars, now,
                   balls, ballMeshes>>

\* ball.dispose()
BallDisposeCall(b) ==
    /\ bl[b].disposeCalls < MaxDisposeCalls
    /\ bl' = [bl EXCEPT ![b] = BallDispose(@)]
    /\ UNCHANGED <<seagullVars, sceneDisposed, ctl, hist, physicsVars, registryVars, now,
                   balls, ballMeshes>>

----------------------------------------------------------------------------
(* Specifications *)

\* The scene and its seagulls; frames arrive at the nominal rate, and each
\* moves every seagull on by one tick of progress; the loads that fail are
\* among those of the first MaxLoneSeagulls seagulls.
Next ==
    \/ \E s \in 1..Len(sg) : AttachTimer(s)
    \/ \E s \in 1..Len(sg) : LoadComplete(s)
    \/ \E s \in 1..MaxLoneSeagulls : LoadError(s)
    \/ \E s \in 1..Len(sg) : RaycastHit(s)
    \/ ResetGame
    \/ Update(timeStep, 1, 0)
    \/ SceneDispose

Spec == Init /\ [][Next]_vars

\* The Seagull class alone: the first MaxLoneSeagulls seagulls of the scene,
\* their timers and loads, the public methods called in any order, and the
\* scene's teardown removing the models.
NextSeagull ==
    \/ \E s \in 1..MaxLoneSeagulls : AttachTimer(s)
    \/ \E s \in 1..MaxLoneSeagulls : LoadCompleteSeen(s)
    \/ \E s \in 1..MaxLoneSeagulls : HitCall(s)
    \/ \E s \in 1..MaxLoneSeagulls : \E d \in 0..MaxDelta : SeagullUpdateCall(s, d)
    \/ \E s \in 1..MaxLoneSeagulls : SeagullDisposeCall(s)
    \/ SceneDispose

SpecSeagull == Init /\ [][NextSeagull]_vars

\* The flight of a seagull, the first of the scene: a load that succeeds or
\* fails, hits, update() called with any delta, and setBounds().
NextFlight ==
    \/ AttachTimer(1)
    \/ LoadComplete(1)
    \/ LoadError(1)
    \/ HitCall(1)
    \/ \E d \in 0..MaxLoneDelta : SeagullUpdateCall(1, d)
    \/ SetBoundsCall(1)

SpecFlight == Init /\ [][NextFlight]_vars

\* The flight paths of the first seagull: setBounds() called with any of the
\* boxes and any random numbers.
NextPath ==
    \E bounds \in {SceneBounds, DefaultBounds, LowBounds} :
       \E n \in 0..(PathPointSpread - 1) :
          \E rnd \in [1..StreamLen -> 0..(RandUnit - 1)] :
             SetBoundsSeen(1, bounds, n, rnd)

SpecPath == Init /\ [][NextPath]_vars

\* The collide callback of the scene, with the first MaxLoneSeagulls
\* seagulls as the instances a body may name.
NextCollide ==
    \/ \E s \in 1..MaxLoneSeagulls : AttachTimer(s)
    \/ \E s \in 1..MaxLoneSeagulls : LoadComplete(s)
    \/ \E b \in BOOLEAN : \E g \in BOOLEAN : \E s \in 0..MaxLoneSeagulls :
          BallCollideCall([hasBody |-> b, seagull |-> s, tagged |-> g])

SpecCollide == Init /\ [][NextCollide]_vars

\* The controls and their raycast balls, with the first MaxLoneSeagulls
\* seagulls of the scene as targets.
NextControls ==
    \/ \E s \in 1..MaxLoneSeagulls : AttachTimer(s)
    \/ \E s \in 1..MaxLoneSeagulls : LoadComplete(s)
    \/ ControlsThrow
    \/ \E e \in 1..MaxElapsed : ControlsTick(e)
    \/ \E b \in 1..Len(ctl.balls) : ControlsBallTimer(b)
    \/ \E b \in 1..Len(ctl.balls) : \E s \in 1..MaxLoneSeagulls : ControlsBallHit(b, s)
    \/ ControlsDispose

SpecControls == Init /\ [][NextControls]_vars

\* The ball loop of the controls: throws along -z or downward, frames in
\* which each ball's ray meets what the collidable set allows, and the first
\* seagull of the scene, flying, as target and obstacle.  No frame of this
\* specification comes after COLLISION_UPDATE_INTERVAL, so the set is the
\* one findCollidableMeshes() collects.
NextRaycast ==
    \/ AttachTimer(1)
    \/ LoadComplete(1)
    \/ sg[1].at.path = 0 /\ SeagullUpdateCall(1, 1)
    \/ \E dir \in {Vec(0, 0, -1), Vec(0, -1, 0)} : CameraLook(dir)
    \/ Len(ctl.balls) < MaxRayBalls /\ ControlsThrow
    \/ /\ ctl.frames < MaxBallFrames
       /\ \E e \in FrameDeltas \ {0} : \E inReach \in {TRUE} :
             \E hits \in [1..Len(ctl.balls) ->
                            UNION {RayResults(SceneObjects(ctl, sg, ballMeshes), sg,
                                              ctl.balls[b].velocity, b) :
                                   b \in 1..Len(ctl.balls)} \cup {NoHit}] :
                ControlsUpdate(e, inReach, hits)

SpecRaycast == Init /\ [][NextRaycast]_vars

\* The collidable set of the controls: frames with no ball in flight, while
\* the seagulls of the scene are attached one after the other.
NextCollidable ==
    \/ \E s \in 1..MaxLoneSeagulls : AttachTimer(s)
    \/ /\ ctl.frames < MaxIdleFrames
       /\ \E e \in FrameDeltas : \E inReach \in BOOLEAN :
             ControlsUpdate(e, inReach, <<>>)

SpecCollidable == Init /\ [][NextCollidable]_vars

\* The PhysicsWorld class alone.
NextPhysics ==
    \/ \E dt \in 0..MaxDt : PhysicsUpdateCall(dt)
    \/ \E body \in 0..MaxBodies : AddBodyCall(body)
    \/ \E body \in 0..MaxBodies : RemoveBodyCall(body)
    \/ PhysicsDisposeCall

SpecPhysics == Init /\ [][NextPhysics]_vars

\* PhysicsWorld.update() called frame after frame, as ExampleScene.update()
\* calls it, with frame deltas within the cap.
NextSteps ==
    \E dt \in 0..(maxSteps * timeStep) : PhysicsUpdateSeen(dt)

SpecSteps == Init /\ [][NextSteps]_vars

\* The Ball class alone.
NextBall ==
    \/ \E cb \in BOOLEAN : CreateBall(cb)
    \/ \E e \in 1..MaxElapsed : Tick(e)
    \/ \E b \in 1..Len(bl) : BallUpdateCall(b)
    \/ \E b \in 1..Len(bl) : BallDisposeCall(b)

SpecBall == Init /\ [][NextBall]_vars

\* The scene and its physics balls.
NextBalls ==
    \/ \E e \in 0..MaxElapsed : ThrowBall(e)
    \/ \E e \in 0..MaxElapsed : UpdateSeen(timeStep, 0, e)
    \/ SceneDispose

SpecBalls == Init /\ [][NextBalls]_vars

\* FirstPersonControls.update() with several balls and several seagulls in
\* the scene: the rays meet the seagull meshes of the collidable set, which
\* is rebuilt at intervals and in between (and within one ball loop) still
\* holds the meshes of a seagull that has been hit.  One ball per seagull
\* is thrown at most; the rays meet the meshes within a frame's travel.
NextHits ==
    \/ \E s \in 1..MaxTargets : AttachTimer(s)
    \/ \E s \in 1..MaxTargets : LoadComplete(s)
    \/ Len(ctl.balls) < MaxTargets /\ ControlsThrow
    \/ /\ ctl.frames < MaxHitFrames
       /\ \E hits \in [1..Len(ctl.balls) ->
                         {h \in UNION {RayResults(SceneObjects(ctl, sg, ballMeshes)
                                                    \cup ctl.collidableMeshes, sg,
                                                  ctl.balls[b].velocity, b) :
                                        b \in 1..Len(ctl.balls)} :
                             /\ h.kind = "seagull"
                             /\ h.distance < BALL_SPEED} \cup {NoHit}] :
             ControlsUpdate(1, TRUE, hits)

SpecHits == Init /\ [][NextHits]_vars

\* The rounds of the game: hit() calls on any seagull ever created, and the
\* reset after a win.
NextRounds ==
    \/ \E s \in 1..Len(sg) : HitSeen(s)
    \/ ResetGame

SpecRounds == Init /\ [][NextRounds]_vars

----------------------------------------------------------------------------
(* Seagull.hit() *)

\* C1: for every seagull and every sequence of hit() calls, isHit goes from
\* false to true once and never back, the onHit callback has run exactly
\* once if the seagull is hit and never otherwise, and a hit() call on a
\* seagull already hit changes no seagull and nothing of the countdown.
C1_HitOnce ==
    /\ [](\A s \in 1..Len(sg) :
            sg[s].onHitCalls = IF sg[s].isHit THEN 1 ELSE 0)
    /\ [][/\ \A s \in 1..Len(sg) :
               /\ sg[s].isHit => sg'[s].isHit
               /\ sg'[s].onHitCalls >= sg[s].onHitCalls
          /\ staleHits' > staleHits =>
               /\ sg' = sg
               /\ remainingSeagulls' = remainingSeagulls
               /\ winSignals' = winSignals
               /\ winDisplay' = winDisplay]_vars

\* A seagull is hit, its callback has run once, and hit() has been called
\* again on a seagull already hit.
C1_Witness ==
    /\ staleHits >= 1
    /\ \E s \in 1..Len(sg) : sg[s].isHit /\ sg[s].onHitCalls = 1

\* C4: the hit() call that turns isHit from false to true leaves the current
\* model of the seagull without a parent and has passed dispose() over its
\* geometry and materials, all within the one step.
C4_HitDetachesAndReleases ==
    [][\A s \in 1..Len(sg) :
          (~sg[s].isHit /\ sg'[s].isHit) =>
              /\ sg'[s].model = sg[s].model
              /\ sg'[s].parent[sg'[s].model] = "none"
              /\ sg'[s].disposed[sg'[s].model] = sg[s].disposed[sg[s].model] + 1]_vars

\* A loaded model that has been in the scene belongs to a hit seagull, is
\* out of the scene and has been released.
C4_Witness ==
    \E s \in 1..Len(sg) :
        /\ sg[s].isHit
        /\ sg[s].model = "loaded"
        /\ sg[s].collidable
        /\ sg[s].parent.loaded = "none"
        /\ sg[s].disposed.loaded >= 1

----------------------------------------------------------------------------
(* The win countdown and the reset *)

\* C2: showWinScreen has fired once for every earlier round, and in the
\* current round it has fired exactly if all NUM_SEAGULLS seagulls of the
\* round are hit: not at four hits or fewer, once at the fifth, and not again
\* on duplicate hit notifications.  The countdown is NUM_SEAGULLS minus the
\* distinct hits of the round and the win screen shows exactly at five.
C2_WinAtFifthHit ==
    LET hits == Cardinality({s \in 1..Len(sg) :
                                s > Len(sg) - NUM_SEAGULLS /\ sg[s].isHit})
    IN /\ winSignals = (round - 1) + (IF hits = NUM_SEAGULLS THEN 1 ELSE 0)
       /\ remainingSeagulls = NUM_SEAGULLS - hits
       /\ (winDisplay = "block") <=> (hits = NUM_SEAGULLS)

\* All seagulls of the round are hit, the win has been signalled for this
\* round, and a duplicate hit notification has arrived.
C2_Witness ==
    /\ \A s \in 1..Len(sg) : s > Len(sg) - NUM_SEAGULLS => sg[s].isHit
    /\ winSignals = round
    /\ staleHits >= 1

\* C3: the step that runs resetGame() (after a win) leaves exactly
\* NUM_SEAGULLS seagulls on the list, all newly constructed and none hit,
\* the countdown at NUM_SEAGULLS, and no visual of any earlier seagull in the
\* scene.
C3_ResetFresh ==
    [][round' = round + 1 =>
          /\ winSignals = round
          /\ Len(seagulls') = NUM_SEAGULLS
          /\ Cardinality(Range(seagulls')) = NUM_SEAGULLS
          /\ \A s \in Range(seagulls') :
                /\ s > Len(sg)
                /\ s <= Len(sg')
                /\ ~sg'[s].isHit
                /\ sg'[s] = SeagullSetBounds(NewSeagull)
          /\ remainingSeagulls' = NUM_SEAGULLS
          /\ \A s \in 1..Len(sg) : \A v \in Visuals : sg'[s].parent[v] = "none"]_vars

\* The game has been reset after a win and the new round has not started.
C3_Witness ==
    /\ round >= 2
    /\ winSignals = round - 1
    /\ ~sceneDisposed
    /\ Len(seagulls) = NUM_SEAGULLS
    /\ \A s \in Range(seagulls) : sg[s] = SeagullSetBounds(NewSeagull)

\* C5: once a seagull is hit, no later step changes its path progress (and
\* with it the position and rotation update() writes from the path).
C5_UpdateNoOpAfterHit ==
    [][\A s \in 1..Len(sg) :
          sg[s].isHit => sg'[s].progress = sg[s].progress]_vars

----------------------------------------------------------------------------
(* PhysicsWorld.update *)

\* C6: whatever the frame delta, one update() makes at most maxSteps world
\* steps, each of timeStep, and leaves no negative time behind.
C6_StepsCapped ==
    /\ steps <= maxSteps
    /\ stepped = steps * timeStep
    /\ accumulator >= 0

\* The cap has cut an update short: maxSteps steps were made and at least
\* one more step's worth of time is left.
C6_Witness ==
    /\ steps = maxSteps
    /\ accumulator >= timeStep

\* C7: update() discards the time the cap did not let it consume: what is
\* carried into the next call never exceeds what one call can consume,
\* maxSteps steps of timeStep.
C7_AccumulatorBounded ==
    accumulator <= maxSteps * timeStep

----------------------------------------------------------------------------
(* Ball *)

\* C8: every Ball.update() call on a ball that is not disposed returns true
\* exactly if now - creationTime < LIFETIME, and every call on a disposed
\* ball returns false.
C8_AliveIffYoung ==
    \A b \in 1..Len(bl) :
        bl[b].report.called =>
            (bl[b].report.alive <=>
                (~bl[b].report.disposed
                 /\ bl[b].report.at - bl[b].creationTime < LIFETIME))

\* A ball not disposed has reported dead at the very end of its lifetime.
C8_Witness ==
    \E b \in 1..Len(bl) :
        /\ bl[b].report.called
        /\ ~bl[b].report.alive
        /\ ~bl[b].report.disposed
        /\ bl[b].report.at - bl[b].creationTime = LIFETIME

\* C10: the first Ball.dispose() removes the listener, releases geometry
\* and material once and sets disposed; from then on no call changes the
\* ball or releases anything again.
C10_DisposeIdempotent ==
    /\ [](\A b \in 1..Len(bl) :
            /\ bl[b].disposed <=> bl[b].disposeCalls >= 1
            /\ bl[b].geometry = (IF bl[b].disposed THEN 1 ELSE 0)
            /\ bl[b].material = (IF bl[b].disposed THEN 1 ELSE 0)
            /\ bl[b].listening <=> (bl[b].hasCallback /\ ~bl[b].disposed))
    /\ [][\A b \in 1..Len(bl) :
            bl[b].disposed =>
                bl'[b] = [bl[b] EXCEPT !.disposeCalls = bl'[b].disposeCalls,
                                       !.report = bl'[b].report]]_vars

\* dispose() has been called a second time on a ball with a listener.
C10_Witness ==
    \E b \in 1..Len(bl) :
        /\ bl[b].disposeCalls >= 2
        /\ bl[b].hasCallback
        /\ bl[b].geometry = 1

\* C9: a tracked ball has never reported dead, is in the scene, in the
\* registry and not disposed; a ball that reported dead in a scene tick was
\* culled in that tick: its mesh is out of the scene, its body out of the
\* registry and the engine, it is disposed and off the list; the cull has
\* happened once, and no later step changes anything of a culled ball.
C9_CullOnce ==
    /\ [](\A b \in 1..Len(bl) :
            /\ b \in Range(balls) =>
                 /\ bl[b].culled = 0
                 /\ ~bl[b].disposed
                 /\ b \in ballMeshes
                 /\ b \in Range(bodies)
                 /\ bl[b].report.called => bl[b].report.alive
            /\ (bl[b].report.called /\ ~bl[b].report.alive) => bl[b].culled = 1
            /\ bl[b].culled >= 1 =>
                 /\ bl[b].culled = 1
                 /\ bl[b].disposed
                 /\ bl[b].geometry = 1
                 /\ bl[b].material = 1
                 /\ bl[b].disposeCalls = 1
                 /\ b \notin ballMeshes
                 /\ b \notin Range(bodies)
                 /\ b \notin Range(worldBodies)
                 /\ b \notin Range(balls))
    /\ [][\A b \in 1..Len(bl) : bl[b].culled >= 1 => bl'[b] = bl[b]]_vars

\* A ball was culled, another is still tracked, and the scene has since
\* run a further tick.
C9_Witness ==
    \E b, c \in 1..Len(bl) :
        /\ bl[b].culled = 1
        /\ bl[c].report.called
        /\ bl[c].report.at > bl[b].report.at
        /\ c \in Range(balls)

----------------------------------------------------------------------------
(* The body registry *)

\* C11: removeBody(b) for a body b the registry does not hold leaves the
\* registry and the engine's list as they are, same bodies in the same
\* order.
C11_RemoveAbsentNoOp ==
    [][hist'.missedRemovals > hist.missedRemovals =>
          /\ bodies' = bodies
          /\ worldBodies' = worldBodies]_vars

\* removeBody() has been called for a body that was not registered while
\* the registry held the ground plane and another body.
C11_Witness ==
    /\ hist.missedRemovals >= 1
    /\ Len(bodies) >= 2

\* C12: after any addBody / removeBody / dispose calls the registry holds
\* no body more than once.
C12_RegistryNoDuplicates ==
    Cardinality(Range(bodies)) = Len(bodies)

\* C13: after any addBody / removeBody / dispose calls the registry and the
\* engine's list hold the same set of bodies.
C13_RegistryMirrorsEngine ==
    Range(bodies) = Range(worldBodies)

\* C14: a new PhysicsWorld holds exactly the ground plane (the static body
\* of mass 0 the constructor makes), in the registry and in the engine, and
\* every dispose() leaves both empty.
C14_GroundThenEmpty ==
    /\ bodies = <<GroundBody>>
    /\ worldBodies = <<GroundBody>>
    /\ [][hist'.worldDisposals > hist.worldDisposals =>
             /\ bodies' = <<>>
             /\ worldBodies' = <<>>]_vars

\* dispose() has run and the registry and the engine are empty.
C14_Witness ==
    /\ hist.worldDisposals >= 1
    /\ bodies = <<>>
    /\ worldBodies = <<>>

----------------------------------------------------------------------------
(* ExampleScene.dispose *)

\* C15: once ExampleScene.dispose() has run, the registry of the scene's
\* physics world holds no body, the ground plane included, and every ball
\* has been disposed exactly once.
C15_DisposeEmptiesRegistry ==
    sceneDisposed =>
        /\ bodies = <<>>
        /\ \A b \in 1..Len(bl) : bl[b].disposed /\ bl[b].disposeCalls = 1

\* C16: once ExampleScene.dispose() has run, no later step (a pending
\* attachment timer, a model load completing) puts a seagull visual into the
\* scene or a body into the registry.
C16_NoLateAttach ==
    [][sceneDisposed =>
          /\ \A s \in 1..Len(sg) : \A v \in Visuals :
                sg'[s].parent[v] = "scene" => sg[s].parent[v] = "scene"
          /\ Range(bodies') \subseteq Range(bodies)]_vars

----------------------------------------------------------------------------
(* Seagull.loadModel *)

C18_FailedLoadKeepsFlying ==
    /\ [](\A s \in 1..Len(sg) :
            sg[s].load = "failed" => sg[s].model = "fallback" /\ sg[s].modelLoaded)
    /\ [][hist'.lateUpdates > hist.lateUpdates =>
             LET s == hist'.lateSeagull IN
             /\ sg[s].load = "failed"
             /\ sg'[s].model = "fallback"
             /\ sg'[s].progress = Advance(sg[s].progress, hist'.lateDelta)]_vars

\* update() has moved the placeholder of a seagull whose load had failed.
C18_Witness ==
    /\ hist.lateUpdates >= 1
    /\ hist.lateDelta = 1
    /\ \E s \in 1..Len(sg) :
          /\ s = hist.lateSeagull
          /\ sg[s].load = "failed"
          /\ sg[s].model = "fallback"
          /\ sg[s].progress >= 1

\* C20: after every Seagull.update(), whatever the delta, the path progress
\* is at least 0 and below one full lap.
C20_ProgressInUnitInterval ==
    \A s \in 1..Len(sg) : sg[s].progress >= 0 /\ sg[s].progress < ProgressUnit

----------------------------------------------------------------------------
(* FirstPersonControls: ball lifetime *)

\* C19: every raycast ball is out of the scene and off the list once its
\* lifetime is over, none is in the scene or on the list past its lifetime,
\* and the geometry dispose() made through a ball happens exactly once: not
\* before the ball is removed for good, once when its timer has fired, and
\* never twice.
C19_BallRemovedReleasedOnce ==
    \A b \in 1..Len(ctl.balls) :
        LET ball == ctl.balls[b] IN
        /\ (ball.inScene \/ b \in Range(ctl.tracked)) =>
              now - ball.thrownAt <= BALL_LIFETIME
        /\ ball.timer = "fired" =>
              /\ ~ball.inScene
              /\ b \notin Range(ctl.tracked)
              /\ ball.releases = 1
        /\ ball.releases <= 1

\* C28: the step in which the model load of a seagull completes makes the
\* loaded model the seagull's visual; if the placeholder was a child of the
\* scene at that moment it is detached and the loaded model is a child of
\* the scene, and if the placeholder had no parent the loaded model has none
\* either.
C28_LoadSwapsVisual ==
    [][\A s \in 1..Len(sg) :
          (sg[s].load = "pending" /\ sg'[s].load = "done") =>
             /\ sg[s].model = "fallback"
             /\ sg'[s].model = "loaded"
             /\ sg'[s].parent.fallback = "none"
             /\ sg'[s].parent.loaded = sg[s].parent.fallback]_vars

\* A load completed while the placeholder was in the scene, and the loaded
\* model is in the scene in its place.
C28_Witness ==
    /\ hist.loadParent = "scene"
    /\ \E s \in 1..Len(sg) :
          /\ sg[s].load = "done"
          /\ sg[s].model = "loaded"
          /\ sg[s].parent.loaded = "scene"
          /\ sg[s].parent.fallback = "none"
          /\ ~sg[s].isHit

----------------------------------------------------------------------------
(* ExampleScene.update *)

\* C22: the calls of one ExampleScene.update() come stage by stage: the
\* physics step first, the ocean second, then every tracked seagull, then
\* every tracked ball, and the frustum pass last; no call of a stage comes
\* before a call of an earlier stage, and the seagull and ball stages cover
\* exactly the seagulls and balls tracked when the frame began.
C22_StagesInOrder ==
    [][hist'.stages # hist.stages =>
         LET q == hist'.stages
             Rank(e) == CASE e[1] = "physics" -> 1
                          [] e[1] = "ocean" -> 2
                          [] e[1] = "seagull" -> 3
                          [] e[1] = "ball" -> 4
                          [] e[1] = "frustum" -> 5
         IN /\ Len(q) = 3 + Len(seagulls) + Len(balls)
            /\ q[1][1] = "physics"
            /\ q[2][1] = "ocean"
            /\ q[Len(q)][1] = "frustum"
            /\ \A i \in 1..Len(q) : \A j \in i..Len(q) : Rank(q[i]) <= Rank(q[j])
            /\ {q[i][2] : i \in {k \in 1..Len(q) : q[k][1] = "seagull"}} = Range(seagulls)
            /\ {q[i][2] : i \in {k \in 1..Len(q) : q[k][1] = "ball"}} = Range(balls)]_vars

\* A frame has run with seagulls and two balls tracked.
C22_Witness ==
    /\ Len(hist.stages) = 3 + NUM_SEAGULLS + 2
    /\ hist.stages[3 + NUM_SEAGULLS][1] = "ball"

----------------------------------------------------------------------------
(* ExampleScene.onBallCollide *)

\* C29: a collide event whose body is there, is tagged as a seagull and
\* names a seagull not yet hit hits that seagull, changes no other seagull
\* and takes one off the countdown; every other event (no body, no tag, no
\* instance, a seagull already hit) leaves every seagull, the countdown and
\* the win screen as they were.
C29_CollideHitsTaggedOnly ==
    [][hist'.collisions > hist.collisions =>
         LET ev == hist'.lastCollision IN
         IF ev.hasBody /\ ev.tagged /\ ev.seagull # 0 /\ ~sg[ev.seagull].isHit
         THEN /\ sg'[ev.seagull].isHit
              /\ sg'[ev.seagull].onHitCalls = 1
              /\ \A s \in 1..Len(sg) : s # ev.seagull => sg'[s] = sg[s]
              /\ remainingSeagulls' = remainingSeagulls - 1
         ELSE UNCHANGED <<sg, remainingSeagulls, winDisplay, winSignals>>]_vars

\* A tagged body has hit a seagull, and a later event for a body that names
\* the same seagull without carrying the tag has been delivered.
C29_Witness ==
    /\ hist.collisions >= 2
    /\ hist.lastCollision.hasBody
    /\ ~hist.lastCollision.tagged
    /\ hist.lastCollision.seagull # 0
    /\ sg[hist.lastCollision.seagull].isHit
    /\ remainingSeagulls = NUM_SEAGULLS - 1

----------------------------------------------------------------------------
(* Seagull.setBounds *)

\* C30: a setBounds() call replaces the path of its seagull and leaves the
\* path progress as it was, an update() call leaves the path as it was, and
\* the sample an update() writes is the sample of the current path (the new
\* one after a setBounds) at the progress reached so far plus this frame's
\* advance.
C30_SetBoundsKeepsProgress ==
    [][\A s \in 1..Len(sg) :
          /\ sg'[s].path # sg[s].path =>
                /\ sg'[s].progress = sg[s].progress
                /\ sg'[s].at = sg[s].at
          /\ sg'[s].at # sg[s].at =>
                /\ sg'[s].path = sg[s].path
                /\ sg'[s].at.path = sg[s].path
                /\ sg'[s].at.progress = sg'[s].progress
                /\ \E d \in 0..MaxLoneDelta :
                      sg'[s].progress = IF sg[s].progress + d > ProgressUnit
                                        THEN sg[s].progress + d - ProgressUnit
                                        ELSE sg[s].progress + d]_vars

\* A seagull that flew part of the path initSeagulls() gave it and was then
\* given new bounds: the path is new, the progress is the one reached on the
\* old path, and the position is still the last sample of the old path.
C30_Witness ==
    \E s \in 1..Len(sg) :
        /\ sg[s].path = 3
        /\ sg[s].at.path = 2
        /\ sg[s].progress = 1
        /\ sg[s].at.progress = 1

----------------------------------------------------------------------------
(* FirstPersonControls: the collidable set *)

----------------------------------------------------------------------------
(* FirstPersonControls.update: the ball loop *)

\* C23: when the ray cast for a ball returns, as the nearest intersection and
\* nearer than the distance the ball travels in this tick, an object tagged
\* as a seagull, the hit() of the seagull that owns it is called in that
\* update(), the ball is out of the scene and of the list of balls at the end
\* of it, and the ball's position and velocity are the ones it had.
C23_SeagullHitRemovesBall ==
    [][\A b \in 1..Len(ctl.balls) :
          LET ball == ctl.balls[b]
              h == ctl'.balls[b].last.hit
          IN (/\ ctl'.frames # ctl.frames
              /\ b \in Range(ctl.tracked)
              /\ h.kind = "seagull"
              /\ h.distance < Length(ball.velocity) * ctl'.balls[b].last.delta)
             => /\ \/ sg'[h.gull].onHitCalls > sg[h.gull].onHitCalls
                   \/ staleHits' > staleHits
                /\ sg'[h.gull].isHit
                /\ ~ctl'.balls[b].inScene
                /\ b \notin Range(ctl'.tracked)
                /\ ctl'.balls[b].position = ball.position
                /\ ctl'.balls[b].velocity = ball.velocity]_vars

\* A ball that met a flying seagull: the seagull is hit and falls out of the
\* scene, and the ball is gone from the scene and from the list.
C23_Witness ==
    \E b \in 1..Len(ctl.balls) :
        /\ ctl.balls[b].last.kind = "seagull"
        /\ sg[ctl.balls[b].last.hit.gull].isHit
        /\ sg[ctl.balls[b].last.hit.gull].onHitCalls = 1
        /\ ~ctl.balls[b].inScene
        /\ b \notin Range(ctl.tracked)


\* C24: when a ball bounces off a surface that is not a seagull and whose
\* normal in world space is n, its new velocity is the incoming velocity
\* reflected about n and multiplied by BOUNCE_FACTOR:
\* v' = 0.6 * (v - 2 (v.n) n).  The world-space normal of a face is its
\* normal turned by the rotation of its mesh and of the mesh's parents.
C24_BounceReflectsAboutWorldNormal ==
    \A b \in 1..Len(ctl.balls) :
        LET last == ctl.balls[b].last
            v == last.from.velocity
            n == Turn(last.hit.normal, last.hit.rot + last.hit.parentRot)
            d == v.x * n.x + v.y * n.y + v.z * n.z
        IN last.kind = "bounce" =>
              /\ ctl.balls[b].velocity.x = Ratio(v.x - 2 * d * n.x, 3, 5)
              /\ ctl.balls[b].velocity.y = Ratio(v.y - 2 * d * n.y, 3, 5)
              /\ ctl.balls[b].velocity.z = Ratio(v.z - 2 * d * n.z, 3, 5)


\* C25: in a tick in which a ball bounces off a surface that is not a
\* seagull, the ball ends the tick at the point of impact moved by
\* NormalOffset along the surface's world-space normal, and nothing else is
\* done to it: the position is not advanced by velocity * dt and is not
\* clamped at the floor, and the reflected velocity gets no gravity and no
\* rest test.
C25_BounceSkipsIntegration ==
    \A b \in 1..Len(ctl.balls) :
        LET last == ctl.balls[b].last
            v == last.from.velocity
            len == Sqrt(v.x * v.x + v.y * v.y + v.z * v.z)
            n == Turn(last.hit.normal, last.hit.rot + last.hit.parentRot)
            d == v.x * n.x + v.y * n.y + v.z * n.z
        IN last.kind = "bounce" =>
              /\ ctl.balls[b].position =
                    Vec(last.from.position.x + Ratio(v.x * last.hit.distance, 1, len)
                          + NormalOffset * n.x,
                        last.from.position.y + Ratio(v.y * last.hit.distance, 1, len)
                          + NormalOffset * n.y,
                        last.from.position.z + Ratio(v.z * last.hit.distance, 1, len)
                          + NormalOffset * n.z)
              /\ ctl.balls[b].velocity.y = Ratio(v.y - 2 * d * n.y, 3, 5)


C27_OnlyWithinTravel ==
    [][ctl'.frames # ctl.frames =>
          LET far(b) == LET h == ctl'.balls[b].last.hit
                            v == ctl.balls[b].velocity
                        IN \/ h.kind = "none"
                           \/ h.distance >= Sqrt(v.x * v.x + v.y * v.y + v.z * v.z)
                                              * ctl'.balls[b].last.delta
          IN /\ \A b \in Range(ctl.tracked) :
                   far(b) =>
                      /\ ctl'.balls[b].last.kind = "free"
                      /\ ctl'.balls[b].inScene
                      /\ b \in Range(ctl'.tracked)
                      /\ ctl'.balls[b].position.x =
                            ctl.balls[b].position.x
                              + ctl.balls[b].velocity.x * ctl'.balls[b].last.delta
                      /\ ctl'.balls[b].position.z =
                            ctl.balls[b].position.z
                              + ctl.balls[b].velocity.z * ctl'.balls[b].last.delta
             /\ (\A b \in Range(ctl.tracked) : far(b)) =>
                   /\ sg' = sg
                   /\ remainingSeagulls' = remainingSeagulls
                   /\ staleHits' = staleHits]_vars

\* A ball whose ray met a seagull exactly at the distance the ball travels
\* in the tick: the ball flew on and the seagull was not hit.
C27_Witness ==
    \E b \in 1..Len(ctl.balls) :
        LET last == ctl.balls[b].last
        IN /\ last.kind = "free"
           /\ last.hit.kind = "seagull"
           /\ last.delta > 0
           /\ last.hit.distance = Length(last.from.velocity) * last.delta
           /\ ~sg[last.hit.gull].isHit
           /\ b \in Range(ctl.tracked)

----------------------------------------------------------------------------
(* Seagull.createRandomPath *)

\* C31: every flight path generated for a seagull has between 5 and 7
\* control points and is closed, and every control point lies inside the box
\* the seagull was given, on all three axes, whatever the box passed to
\* setBounds() (a box less than 20 units high included).
C31_PathWithinBounds ==
    hist.flight.points # <<>> =>
       /\ Len(hist.flight.points) >= 5
       /\ Len(hist.flight.points) <= 7
       /\ hist.flight.closed
       /\ \A i \in 1..Len(hist.flight.points) :
             LET p == hist.flight.points[i]
             IN /\ hist.bounds.min.x <= p.x /\ p.x <= hist.bounds.max.x
                /\ hist.bounds.min.y <= p.y /\ p.y <= hist.bounds.max.y
                /\ hist.bounds.min.z <= p.z /\ p.z <= hist.bounds.max.z


\* C32: when the ray cast for a ball returns, nearer than the distance the
\* ball travels in the tick, a mesh of the visual a flying seagull currently
\* shows, the placeholder as well as the loaded model, the update() treats it
\* as a seagull hit: the seagull is hit and the ball does not bounce.
C32_VisualHitIsSeagullHit ==
    [][\A b \in 1..Len(ctl.balls) :
          LET h == ctl'.balls[b].last.hit
              v == ctl.balls[b].velocity
              visual == IF h.kind = "seagull" THEN "loaded" ELSE "fallback"
          IN (/\ ctl'.frames # ctl.frames
              /\ b \in Range(ctl.tracked)
              /\ h.kind # "none"
              /\ h.gull # 0
              /\ ~sg[h.gull].isHit
              /\ sg[h.gull].model = visual
              /\ h.distance < Sqrt(v.x * v.x + v.y * v.y + v.z * v.z)
                                 * ctl'.balls[b].last.delta)
             => /\ ctl'.balls[b].last.kind = "seagull"
                /\ sg'[h.gull].isHit]_vars


\* C33: at the end of every ExampleScene.update() tick and after every
\* throwBall(), the balls the scene tracks, the ball bodies of the physics
\* registry (the bodies list and the cannon world) and the ball meshes
\* attached to the scene are in one-to-one correspondence: the same balls,
\* each exactly once.  Every state of the scene before dispose() is the
\* construction or the end of one of these two operations.
C33_BallsBodiesMeshesAgree ==
    ~sceneDisposed =>
        /\ Range(balls) = ballMeshes
        /\ Range(bodies) \ {GroundBody} = Range(balls)
        /\ Range(worldBodies) \ {GroundBody} = Range(balls)
        /\ Len(balls) = Cardinality(Range(balls))
        /\ Len(bodies) = Cardinality(Range(bodies))
        /\ Len(worldBodies) = Cardinality(Range(worldBodies))

\* A tick has culled one ball while another one, thrown later, stays
\* tracked with its body and its mesh.
C33_Witness ==
    /\ ~sceneDisposed
    /\ \E b \in 1..Len(bl) : bl[b].culled = 1
    /\ Len(balls) = 1
    /\ ballMeshes = Range(balls)
    /\ Range(bodies) = {GroundBody} \cup Range(balls)


----------------------------------------------------------------------------
(* The countdown across rounds *)

\* C34: in every reachable state, across rounds and resets, the countdown
\* remainingSeagulls is NUM_SEAGULLS minus the number of seagulls of the
\* current round that are hit, and is never negative; and a step that
\* lowers the countdown lowers it by one, through a hit() on a seagull of
\* the current round that was not hit before: a hit() on a seagull of an
\* earlier round never lowers the countdown of a later round.
C34_CountdownIsRoundHits ==
    /\ [](/\ remainingSeagulls
               = NUM_SEAGULLS - Cardinality({s \in Range(seagulls) : sg[s].isHit})
          /\ remainingSeagulls >= 0)
    /\ [][/\ remainingSeagulls' < remainingSeagulls =>
                /\ remainingSeagulls' = remainingSeagulls - 1
                /\ hist'.hitOn \in Range(seagulls)
                /\ ~sg[hist'.hitOn].isHit
          /\ (hist' # hist /\ hist'.hitStale) =>
                /\ remainingSeagulls' = remainingSeagulls
                /\ winDisplay' = winDisplay]_vars

\* In a later round, with one seagull of the round already hit, hit() has
\* been called on a seagull of an earlier round.
C34_Witness ==
    /\ round >= 2
    /\ hist.hitOn # 0
    /\ hist.hitStale
    /\ hist.hitOn \notin Range(seagulls)
    /\ remainingSeagulls = NUM_SEAGULLS - 1


----------------------------------------------------------------------------
(* The visuals of a seagull in the scene *)

\* C35: in every interleaving of the 500 ms attachment timers, the load
\* completions, the hits and the resets, at most one visual of a seagull is
\* attached to the scene: the placeholder and the loaded model are never
\* both attached, and an attached visual is the seagull's current model.
\* (A visual has one parent, Object3D.add detaching it first, so none is
\* attached twice.)
C35_OneVisualAttached ==
    \A s \in 1..Len(sg) :
        /\ Cardinality({v \in Visuals : sg[s].parent[v] = "scene"}) <= 1
        /\ \A v \in Visuals : sg[s].parent[v] = "scene" => v = sg[s].model

\* After a reset, a seagull of the new round flies with its loaded model
\* attached, the timer and the load both done, while the load of another
\* seagull of the round is still pending behind its attached placeholder.
C35_Witness ==
    /\ round >= 2
    /\ \E s, r \in Range(seagulls) :
          /\ sg[s].timer = "fired"
          /\ sg[s].load = "done"
          /\ sg[s].parent.loaded = "scene"
          /\ sg[r].load = "pending"
          /\ sg[r].parent.fallback = "scene"


----------------------------------------------------------------------------
(* FirstPersonControls: the shared ball geometry *)

\* C36: the expiry or removal of one raycast ball releases nothing another
\* ball is using: while any raycast ball is on the list and in the scene,
\* the geometry and the material its mesh is built from have not been
\* disposed.
C36_SharedResourcesKept ==
    (\E b \in Range(ctl.tracked) : ctl.balls[b].inScene) =>
        /\ ctl.geometry = 0
        /\ ctl.material = 0


----------------------------------------------------------------------------
(* FirstPersonControls.update: which seagull a ray hits *)

\* C37: in a tick of FirstPersonControls.update(), every seagull whose state
\* changes is the seagull whose visual holds the object a ball's ray met
\* (one seagull per ball): it was not hit before and is hit after, and the
\* countdown drops by the number of such seagulls; no other seagull changes.
\* When every object met belongs to a seagull that is already hit (the
\* collidable set being stale), no seagull and no countdown changes.
C37_HitChangesOnlyItsSeagull ==
    [][ctl'.frames # ctl.frames =>
          LET struck == {b \in Range(ctl.tracked) : ctl'.balls[b].last.kind = "seagull"}
              named == {ctl'.balls[b].last.hit.gull : b \in struck}
              changed == {s \in 1..Len(sg) : sg'[s] # sg[s]}
          IN /\ changed = {s \in named : ~sg[s].isHit}
             /\ \A s \in changed :
                   /\ sg'[s].isHit
                   /\ sg'[s].parent[sg[s].model] = "none"
             /\ remainingSeagulls' = remainingSeagulls - Cardinality(changed)
             /\ (\A s \in named : sg[s].isHit) =>
                   /\ sg' = sg
                   /\ remainingSeagulls' = remainingSeagulls
                   /\ winDisplay' = winDisplay]_vars

\* One seagull has been hit while another flies on attached, and a later
\* ball has met a mesh of the hit seagull, still in the collidable set.
C37_Witness ==
    /\ staleHits >= 1
    /\ remainingSeagulls = NUM_SEAGULLS - 1
    /\ \E s, r \in 1..MaxTargets :
          /\ sg[s].isHit
          /\ ~sg[r].isHit
          /\ sg[r].parent.loaded = "scene"
          /\ \E b \in 1..Len(ctl.balls) :
                /\ ctl.balls[b].last.kind = "seagull"
                /\ ctl.balls[b].last.hit.gull = s
                /\ ~ctl.balls[b].inScene


----------------------------------------------------------------------------
(* PhysicsWorld.update: frame deltas within the cap *)

\* C38: over any sequence of PhysicsWorld.update(dt) calls with every
\* dt <= maxSteps * timeStep, the accumulator starting at 0 (below one
\* timestep), no simulated time is lost: after each call the accumulator is
\* below timeStep and the world steps made so far number
\* floor(total dt / timeStep).
C38_NoTimeLost ==
    /\ accumulator < timeStep
    /\ accumulator >= 0
    /\ hist.worldSteps * timeStep + accumulator = hist.fed
    /\ hist.worldSteps = hist.fed \div timeStep

\* After several calls, one has made maxSteps steps from the longest delta
\* on top of a remainder, and a remainder is carried on.
C38_Witness ==
    /\ steps = maxSteps
    /\ stepped = maxSteps * timeStep
    /\ accumulator = timeStep - 1
    /\ hist.worldSteps > 2 * maxSteps


----------------------------------------------------------------------------
(* FirstPersonControls.dispose *)

\* C39: once FirstPersonControls.dispose() has run, no later step (an input
\* event, a ball lifetime timer that was pending) changes the controller or
\* what it keeps in the scene: no ball is spawned, none is removed from the
\* scene or the list, and no geometry or material is released.
C39_DisposedControlsInert ==
    [][ctl.disposed =>
          /\ Len(ctl'.balls) = Len(ctl.balls)
          /\ ctl'.tracked = ctl.tracked
          /\ ctl'.geometry = ctl.geometry
          /\ ctl'.material = ctl.material
          /\ \A b \in 1..Len(ctl.balls) :
                /\ ctl'.balls[b].inScene = ctl.balls[b].inScene
                /\ ctl'.balls[b].releases = ctl.balls[b].releases]_vars


----------------------------------------------------------------------------
(* The win screen across rounds *)

\* C40: across any number of win/reset rounds, at most one win-screen
\* element created by the scene is in the document at any time, and after
\* ExampleScene.dispose() none is left.
C40_OneWinScreen ==
    /\ winScreens <= 1
    /\ sceneDisposed => winScreens = 0

============================================================================
